---- MODULE Spec2Model ----
(***************************************************************************)
(* Borrow lifecycle and inventory consistency of the-librarian-backend.    *)
(*                                                                         *)
(* The persistent store is the collections Inventory, Copy, BorrowRequest, *)
(* BorrowRecord, Title and User.  Every HTTP handler is a sequence of      *)
(* awaited store calls; each awaited call is one atomic step of the        *)
(* process (request) that runs the handler, so that two handlers can       *)
(* interleave exactly where the event loop lets them.                      *)
(*                                                                         *)
(*   Spec       the stock handlers (inventories, copies) from the empty    *)
(*              store, one call at a time                                  *)
(*   SpecLoan   the decision on a request, the loan handlers and the       *)
(*              overdue sweep on a stocked library, one call at a time     *)
(*   SpecConc   decisions and cancellations of two callers, interleaved    *)
(*   SpecCreate createBorrowRequest and cancelBorrowRequest, interleaved   *)
(*   SpecDesk   copy status edits, copy deletions and request decisions,   *)
(*              one call at a time                                         *)
(*   SpecRecount copy creations and request decisions, interleaved         *)
(*   SpecRequest createBorrowRequest and request decisions, one call at a  *)
(*              time                                                       *)
(*   SpecTitle  loans, returns, copy deletions and title deletions, one    *)
(*              call at a time                                             *)
(*   SpecAuth   registration, login, token refresh and account decisions,  *)
(*              one call at a time                                         *)
(*   SpecSignup registrations and rejections, with and without             *)
(*              interleaving                                               *)
(*   SpecOverdue decisions, the overdue sweep, returns and copy edits, one   *)
(*              call at a time                                             *)
(*   SpecScope  two admins of different libraries and the members decide,  *)
(*              return, edit copies and list, one call at a time           *)
(***************************************************************************)
EXTENDS Integers, Sequences, FiniteSets, TLC

\* ----- bounds of the model -------------------------------------------------
MaxCopies == 2        \* Copy documents ever created
MaxReqs   == 2        \* BorrowRequest documents ever created
MaxRecs   == 2        \* BorrowRecord documents ever created
MaxInvs   == 1        \* Inventory documents ever created
LoanCopies == 1       \* copies of the inventory that SpecLoan starts from
MaxUsers  == 2        \* User documents ever created
MaxNow    == 15       \* the clock stops advancing here
TickDays  == 15       \* days that pass in one clock step

\* ----- program constants ---------------------------------------------------
LoanDays == 14        \* dueDate.setDate(dueDate.getDate() + 14)

Libs    == {"L1"}
Titles  == {"T1", "T2"}
\* ids that callers may send: those of the documents and one of no document
LibInputs   == Libs \cup {"L0"}
TitleInputs == Titles \cup {"T0"}
Members == {"u1", "u2"}            \* callers with role student / guest
Staff   == {"a1", "a2"}            \* callers with role admin
\* req.user.role: s1 is the superadmin
StaffRole(u) == IF u = "s1" THEN "superadmin" ELSE "admin"
\* req.user.libraries: a1 is assigned the library, a2 another one
StaffLibs(u) == IF u = "a1" THEN {"L1"} ELSE {"L2"}
\* the libraryId that a staff caller sends: one of their own or an existing one
LibParams(u) == StaffLibs(u) \cup Libs

CopyStatuses == {"available", "borrowed", "reserved", "lost", "maintenance"}
RequestStatuses == {"pending", "approved", "rejected", "cancelled"}
LoanStatuses == {"borrowed", "returned", "overdue", "lost"}
\* the status values that callers send for a copy
CopyInputs == {"available", "borrowed", "maintenance"}

NoTime == -1

\* library.code of the Library documents
LibCode(lib) == <<"code", lib>>
\* `${library.code}-${year}-${String(n).padStart(4, '0')}`, within one year
Barcode(code, n) == <<code, n>>
NoBarcode == <<>>
\* { $regex: `^${library.code}-${year}-` }
HasPrefix(b, code) == b # NoBarcode /\ b[1] = code
\* the barcode of the body of createCopy: absent, or one of the library's format
BarcodeInputs == {NoBarcode, Barcode(LibCode("L1"), MaxCopies)}

\* the addresses, roles and passwords that callers send; "none" is a role
\* that is absent from the body
EmailInputs == {"a@x.io", "A@x.io", "b@x.io"}
RoleInputs == {"none", "guest", "student", "admin"}
Passwords == {"pw1", "pw2"}
UserStatuses == {"pending", "active", "rejected", "suspended"}
\* normalizeEmail() of the validators and lowercase: true of the schema
normalizeEmail(e) == IF e = "A@x.io" THEN "a@x.io" ELSE e
\* bcrypt.hash of the pre-save hook and bcrypt.compare of comparePassword
hash(pw) == <<"bcrypt", pw>>
comparePassword(candidate, passwordHash) == passwordHash = hash(candidate)
NoFees == <<>>
DefaultFees == [lateFee |-> 0, damageFee |-> 0, currency |-> "USD"]
FeeInputs == {NoFees, [lateFee |-> 2], [lateFee |-> -1]}

Procs == {1, 2}

VARIABLES
  invs,     \* Inventory collection: sequence indexed by _id
  copies,   \* Copy collection
  reqs,     \* BorrowRequest collection
  recs,     \* BorrowRecord collection
  now,      \* the wall clock (days)
  pr,       \* per process: the handler it runs, its position and its locals
  conc,     \* TRUE when handlers of different processes may interleave
  titles,   \* Title collection: the _ids of the documents
  users,    \* User collection: sequence indexed by _id
  staff     \* the accounts with role admin that hold a token

vars == <<invs, copies, reqs, recs, now, pr, conc, titles, users, staff>>

DB == [invs |-> invs, copies |-> copies, reqs |-> reqs, recs |-> recs,
       users |-> users]
NoDB == [invs |-> <<>>, copies |-> <<>>, reqs |-> <<>>, recs |-> <<>>,
         users |-> <<>>]

\* ----- documents -----------------------------------------------------------
NoInv  == [lib |-> "none", title |-> "none", total |-> 0, avail |-> 0]
NoCopy == [inv |-> 0, lib |-> "none", title |-> "none", status |-> "none",
           live |-> FALSE, barcode |-> NoBarcode]
NoReq  == [user |-> "none", lib |-> "none", title |-> "none", inv |-> 0,
           copy |-> 0, status |-> "none", decidedBy |-> "none",
           decidedAt |-> NoTime]
NoRec  == [user |-> "none", lib |-> "none", title |-> "none", inv |-> 0,
           copy |-> 0, borrowDate |-> NoTime, dueDate |-> NoTime,
           returnDate |-> NoTime, status |-> "none", approvedBy |-> "none",
           fees |-> DefaultFees, req |-> 0]

\* cookie: a refresh token for this _id has been issued
NoUser == [email |-> "none", role |-> "none", status |-> "none",
           passwordHash |-> <<>>, lastLoginAt |-> NoTime, cookie |-> FALSE]

\* an in-memory mongoose document: the _id, the values loaded (or, for a new
\* document, none) and the current in-memory values
Doc(i, d) == [id |-> i, orig |-> d, doc |-> d, isNew |-> FALSE]
NewDoc(i, d, blank) == [id |-> i, orig |-> blank, doc |-> d, isNew |-> TRUE]

\* save() of a loaded document sends $set of the modified paths only
SaveDoc(cur, d) ==
  [f \in DOMAIN cur |-> IF d.doc[f] # d.orig[f] THEN d.doc[f] ELSE cur[f]]

\* { ...record.fees, ...fees }
MergeFees(old, new) ==
  [k \in DOMAIN old \cup DOMAIN new |-> IF k \in DOMAIN new THEN new[k] ELSE old[k]]

\* min: [0, 'Late fee cannot be negative'], min: [0, 'Damage fee cannot be negative']
ValidFees(f) == f.lateFee >= 0 /\ f.damageFee >= 0

\* body('fees.lateFee').optional().isFloat({ min: 0 }), the same for damageFee
ValidFeeInput(f) == \A k \in DOMAIN f \cap {"lateFee", "damageFee"} : f[k] >= 0

LiveCopies == {c \in 1..Len(copies) : copies[c].live}
\* a deleted document leaves its _id behind, blank
LiveInvs == {i \in 1..Len(invs) : invs[i] # NoInv}
LiveReqs == {r \in 1..Len(reqs) : reqs[r] # NoReq}
LiveRecs == {r \in 1..Len(recs) : recs[r] # NoRec}

\* Copy.countDocuments({ inventoryId })
CountCopies(i) == Cardinality({c \in LiveCopies : copies[c].inv = i})
\* Copy.countDocuments({ inventoryId, status: 'available' })
CountAvailable(i) ==
  Cardinality({c \in LiveCopies : copies[c].inv = i /\ copies[c].status = "available"})

\* ----- processes -----------------------------------------------------------
NoArgs == [id |-> 0, status |-> "none", fees |-> NoFees, user |-> "none",
           lib |-> "none", title |-> "none", n |-> 0, userId |-> "none",
           email |-> "none", role |-> "none", password |-> "none",
           barcode |-> NoBarcode]
NoRes == [code |-> 0, error |-> "none", id |-> 0, token |-> FALSE]

Idle == [pc |-> "idle", op |-> "none", a |-> NoArgs, stack |-> <<>>,
         rq |-> Doc(0, NoReq), cp |-> Doc(0, NoCopy), rc |-> Doc(0, NoRec),
         iv |-> Doc(0, NoInv), i |-> 0, ids |-> <<>>, res |-> NoRes,
         snap |-> NoDB, old |-> "none", inventoryIds |-> {}, copyIds |-> {},
         us |-> Doc(0, NoUser)]

AllIdle == \A p \in Procs : pr[p].pc = "idle"

\* a process may take a step: in sequential runs only process 1 runs
MayRun(p) == conc \/ p = 1

\* a handler starts: the process records the call and the store it started from
Start(p, op, args, pc0) ==
  /\ MayRun(p)
  /\ pr[p].pc = "idle"
  /\ pr' = [pr EXCEPT ![p] = [Idle EXCEPT !.pc = pc0, !.op = op, !.a = args,
                                          !.snap = IF conc THEN NoDB ELSE DB]]

\* res.status(code).json({ error }); id is the document the handler worked on
RespondId(l, code, error, id) ==
  [Idle EXCEPT !.pc = "done", !.op = l.op, !.a = l.a, !.snap = l.snap,
               !.res = [code |-> code, error |-> error, id |-> id, token |-> FALSE]]
Respond(l, code, error) == RespondId(l, code, error, 0)
\* a response that carries data.accessToken when token is TRUE
RespondToken(l, code, id, token) ==
  [RespondId(l, code, "none", id) EXCEPT !.res.token = token]

\* the catch block of each handler: res.status(500).json({ error })
FailMsg(op) ==
  CASE op = "createInventory"     -> "Failed to create inventory"
    [] op = "updateInventory"     -> "Failed to update inventory"
    [] op = "createCopy"          -> "Failed to create copy"
    [] op = "updateCopy"          -> "Failed to update copy"
    [] op = "deleteCopy"          -> "Failed to delete copy"
    [] op = "createBorrowRequest" -> "Failed to create borrow request"
    [] op = "updateBorrowRequest" -> "Failed to update borrow request"
    [] op = "cancelBorrowRequest" -> "Failed to cancel borrow request"
    [] op = "updateBorrowRecord"  -> "Failed to update borrow record"
    [] op = "returnBook"          -> "Failed to return book"
    [] op = "deleteTitle"         -> "Failed to delete title"
    [] op = "register"            -> "Registration failed"
    [] op = "login"               -> "Login failed"
    [] op = "updateUser"          -> "Failed to update user"
    [] op = "approveStudent"      -> "Failed to approve student"
    [] op = "rejectStudent"       -> "Failed to reject student"
    [] OTHER                      -> "none"
Throw(l) == Respond([l EXCEPT !.stack = <<>>], 500, FailMsg(l.op))

\* authorizeLibraryAccess: an admin passes when the libraryId of the params,
\* body or query is one of req.user.libraries; a superadmin always passes
authorizeLibraryAccess(u, libraryId) ==
  StaffRole(u) = "superadmin" \/ libraryId \in StaffLibs(u)
Denied(l) == Respond(l, 403, "Access denied to this library")

\* call a subroutine (a hook or a static) and continue at ret afterwards
Call(l, sub, ret) == [l EXCEPT !.pc = sub, !.stack = <<ret>> \o l.stack]

\* new Copy({...}) of createInventory and updateInventory
FreshCopy(i, lib, title) ==
  NewDoc(0, [inv |-> i, lib |-> lib, title |-> title, status |-> "available",
             live |-> TRUE, barcode |-> NoBarcode], NoCopy)

\* the code between two awaited calls: after a subroutine returns to label
\* l.pc, run the handler up to its next awaited call
Resume(l) ==
  CASE l.pc = "ci_next" ->
         \* for (let i = 0; i < totalCopies; i++) { ... await copy.save() }
         IF l.i < l.a.n
           THEN Call([l EXCEPT !.i = l.i + 1,
                               !.cp = FreshCopy(l.iv.id, l.a.lib, l.a.title)],
                     "cs_write", "ci_next")
           ELSE Respond(l, 201, "none")
    [] l.pc = "cc_done" -> RespondId(l, 201, "none", l.cp.id)
    [] l.pc = "ui_next" ->
         \* for (let i = 0; i < difference; i++) { ... await copy.save() }
         IF l.i > 0
           THEN Call([l EXCEPT !.i = l.i - 1,
                               !.cp = FreshCopy(l.iv.id, l.iv.doc.lib, l.iv.doc.title)],
                     "cs_write", "ui_next")
           ELSE [l EXCEPT !.pc = "ui_count"]
    [] l.pc = "ur_copysave" ->
         \* availableCopy.status = 'borrowed'; await availableCopy.save()
         Call([l EXCEPT !.cp.doc.status = "borrowed"], "cs_write", "ur_ucc")
    [] l.pc \in {"ur_ucc", "lr_ucc"} ->
         \* await Inventory.updateCopyCounts(inventoryId)
         Call([l EXCEPT !.iv = Doc(IF l.pc = "ur_ucc" THEN l.rq.doc.inv ELSE l.rc.doc.inv, NoInv)],
              "ucc_find", IF l.pc = "ur_ucc" THEN "rq_save" ELSE "lr_save")
    [] l.pc = "lr_save" -> Call(l, "rs_write", "lr_done")
    [] l.pc = "lr_done" -> RespondId(l, 200, "none", l.rc.id)
    [] l.pc = "sw_next" ->
         \* for (const record of overdueRecords) { if (record.status === 'borrowed') ... }
         IF l.ids = <<>> THEN Respond(l, 200, "none")
         ELSE Call([l EXCEPT !.rc = [Head(l.ids) EXCEPT !.doc.status = "overdue"],
                             !.ids = Tail(l.ids)],
                   "rs_write", "sw_next")
    [] OTHER -> l

Return(l) == Resume([l EXCEPT !.pc = Head(l.stack), !.stack = Tail(l.stack)])

Init ==
  /\ invs = <<>> /\ copies = <<>> /\ reqs = <<>> /\ recs = <<>>
  /\ now = 0
  /\ pr = [p \in Procs |-> Idle]
  /\ conc = FALSE
  /\ titles = Titles /\ users = <<>> /\ staff = {"a1"}

\* the response has been sent: the process is free again
Finish(p) ==
  /\ pr[p].pc = "done"
  /\ pr' = [pr EXCEPT ![p] = Idle]
  /\ UNCHANGED <<invs, copies, reqs, recs, now, conc, titles, users, staff>>

\* time passes
Tick ==
  /\ AllIdle
  /\ now + TickDays <= MaxNow
  /\ now' = now + TickDays
  /\ UNCHANGED <<invs, copies, reqs, recs, pr, conc, titles, users, staff>>

\* ----- Inventory.updateCopyCounts (statics) and the Copy save hooks ---------

\* const inventory = await this.findById(inventoryId); if (!inventory) return null
ucc_find(p) ==
  LET l == pr[p] IN
  /\ MayRun(p) /\ l.pc = "ucc_find"
  /\ pr' = [pr EXCEPT ![p] =
        IF l.iv.id \in LiveInvs
          THEN [l EXCEPT !.pc = "ucc_total", !.iv = Doc(l.iv.id, invs[l.iv.id])]
          ELSE Return(l)]
  /\ UNCHANGED <<invs, copies, reqs, recs, now, conc, titles, users, staff>>

\* const totalCopies = await Copy.countDocuments({ inventoryId })
ucc_total(p) ==
  LET l == pr[p] IN
  /\ MayRun(p) /\ l.pc = "ucc_total"
  /\ pr' = [pr EXCEPT ![p] =
        [l EXCEPT !.pc = "ucc_avail", !.iv.doc.total = CountCopies(l.iv.id)]]
  /\ UNCHANGED <<invs, copies, reqs, recs, now, conc, titles, users, staff>>

\* const availableCopies = await Copy.countDocuments({ inventoryId, status: 'available' })
ucc_avail(p) ==
  LET l == pr[p] IN
  /\ MayRun(p) /\ l.pc = "ucc_avail"
  /\ pr' = [pr EXCEPT ![p] =
        [l EXCEPT !.pc = "ucc_save", !.iv.doc.avail = CountAvailable(l.iv.id)]]
  /\ UNCHANGED <<invs, copies, reqs, recs, now, conc, titles, users, staff>>

\* InventorySchema.pre('save'): availableCopies never above totalCopies
ClampInv(d) ==
  IF d.doc.avail > d.doc.total THEN [d EXCEPT !.doc.avail = d.doc.total] ELSE d

\* return inventory.save()
ucc_save(p) ==
  LET l == pr[p] IN
  /\ MayRun(p) /\ l.pc = "ucc_save"
  /\ invs' = [invs EXCEPT ![l.iv.id] = SaveDoc(invs[l.iv.id], ClampInv(l.iv))]
  /\ pr' = [pr EXCEPT ![p] = Return(l)]
  /\ UNCHANGED <<copies, reqs, recs, now, conc, titles, users, staff>>

\* Copy.countDocuments({ libraryId, barcode: { $regex: prefix } }) over a
\* Copy collection cs
CountPrefix(cs, lib) ==
  Cardinality({c \in 1..Len(cs) :
                 cs[c].live /\ cs[c].lib = lib /\ HasPrefix(cs[c].barcode, LibCode(lib))})

\* if (!this.barcode && this.isNew)
NeedsBarcode(d) == d.isNew /\ d.doc.barcode = NoBarcode

\* CopySchema.pre('save'): a new copy without a barcode gets the library code
\* and 1 + the number of the library's copies with that prefix
cs_pre(p) ==
  LET l == pr[p]
      lib == l.cp.doc.lib
  IN
  /\ MayRun(p) /\ l.pc = "cs_write" /\ NeedsBarcode(l.cp)
  /\ pr' = [pr EXCEPT ![p] =
        IF lib \in Libs
          THEN [l EXCEPT !.pc = "cs_insert",
                         !.cp.doc.barcode = Barcode(LibCode(lib), CountPrefix(copies, lib) + 1)]
          ELSE [l EXCEPT !.pc = "cs_insert"]]
  /\ UNCHANGED <<invs, copies, reqs, recs, now, conc, titles, users, staff>>

\* CopySchema.index({ libraryId: 1, barcode: 1 }, { unique: true, sparse: true })
BarcodeIndexConflict(d) ==
  \E c \in LiveCopies : copies[c].lib = d.lib /\ copies[c].barcode = d.barcode

\* await copy.save(): the insert or the $set of the modified paths, then
\* CopySchema.post('save') recounts the inventory of the copy
cs_write(p) ==
  LET l == pr[p]
      hook(id) == [l EXCEPT !.pc = "ucc_find", !.cp.id = id,
                            !.iv = Doc(l.cp.doc.inv, NoInv)]
  IN
  /\ MayRun(p)
  /\ l.pc = "cs_insert" \/ (l.pc = "cs_write" /\ ~NeedsBarcode(l.cp))
  /\ IF l.cp.isNew
       THEN IF BarcodeIndexConflict(l.cp.doc)
              THEN \* E11000 duplicate key
                   /\ UNCHANGED copies
                   /\ pr' = [pr EXCEPT ![p] = Throw(l)]
              ELSE /\ Len(copies) < MaxCopies
                   /\ copies' = Append(copies, l.cp.doc)
                   /\ pr' = [pr EXCEPT ![p] = hook(Len(copies) + 1)]
       ELSE IF l.cp.doc = l.cp.orig
         THEN /\ UNCHANGED copies
              /\ pr' = [pr EXCEPT ![p] = hook(l.cp.id)]
         ELSE IF copies[l.cp.id].live
           THEN /\ copies' = [copies EXCEPT ![l.cp.id] = SaveDoc(copies[l.cp.id], l.cp)]
                /\ pr' = [pr EXCEPT ![p] = hook(l.cp.id)]
           ELSE \* DocumentNotFoundError: the copy was deleted meanwhile
                /\ UNCHANGED copies
                /\ pr' = [pr EXCEPT ![p] = Throw(l)]
  /\ UNCHANGED <<invs, reqs, recs, now, conc, titles, users, staff>>

\* ----- inventoryController.createInventory ---------------------------------
createInventory(p) ==
  \E lib \in Libs, title \in Titles, n \in 0..MaxCopies :
    /\ Len(invs) < MaxInvs
    /\ Len(copies) + n <= MaxCopies
    /\ Start(p, "createInventory", [NoArgs EXCEPT !.lib = lib, !.title = title, !.n = n],
             "ci_find")
    /\ UNCHANGED <<invs, copies, reqs, recs, now, conc, titles, users, staff>>

\* const existingInventory = await Inventory.findOne({ libraryId, titleId })
ci_find(p) ==
  LET l == pr[p] IN
  /\ MayRun(p) /\ l.pc = "ci_find"
  /\ pr' = [pr EXCEPT ![p] =
        IF \E i \in 1..Len(invs) : invs[i].lib = l.a.lib /\ invs[i].title = l.a.title
          THEN Respond(l, 409, "Inventory already exists for this title in this library")
          ELSE [l EXCEPT !.pc = "ci_save"]]
  /\ UNCHANGED <<invs, copies, reqs, recs, now, conc, titles, users, staff>>

\* await inventory.save(), then the copy loop
ci_save(p) ==
  LET l == pr[p]
      d == ClampInv(NewDoc(Len(invs) + 1,
             [lib |-> l.a.lib, title |-> l.a.title, total |-> l.a.n, avail |-> l.a.n],
             NoInv))
  IN
  /\ MayRun(p) /\ l.pc = "ci_save"
  /\ IF \E i \in 1..Len(invs) : invs[i].lib = l.a.lib /\ invs[i].title = l.a.title
       THEN \* unique index { libraryId, titleId }
            /\ UNCHANGED invs
            /\ pr' = [pr EXCEPT ![p] = Throw(l)]
       ELSE /\ Len(invs) < MaxInvs
            /\ invs' = Append(invs, d.doc)
            /\ pr' = [pr EXCEPT ![p] = Resume([l EXCEPT !.pc = "ci_next", !.iv = d, !.i = 0])]
  /\ UNCHANGED <<copies, reqs, recs, now, conc, titles, users, staff>>

\* ----- inventoryController.updateInventory ---------------------------------
updateInventory(p) ==
  \E i \in 1..MaxInvs, n \in 0..MaxCopies :
    /\ i \in 1..Len(invs) => Len(copies) + n - invs[i].total <= MaxCopies
    /\ Start(p, "updateInventory", [NoArgs EXCEPT !.id = i, !.n = n], "ui_find")
    /\ UNCHANGED <<invs, copies, reqs, recs, now, conc, titles, users, staff>>

\* const inventory = await Inventory.findById(id); difference = newTotal -
\* inventory.totalCopies
ui_find(p) ==
  LET l == pr[p]
      i == l.a.id
      diff == l.a.n - invs[i].total
      m == [l EXCEPT !.iv = Doc(i, invs[i])]
  IN
  /\ MayRun(p) /\ l.pc = "ui_find"
  /\ pr' = [pr EXCEPT ![p] =
        IF i \notin LiveInvs THEN Respond(l, 404, "Inventory not found")
        ELSE IF diff > 0 THEN Resume([m EXCEPT !.pc = "ui_next", !.i = diff])
        ELSE IF diff < 0 THEN [m EXCEPT !.pc = "ui_list", !.i = 0 - diff]
        ELSE [m EXCEPT !.pc = "ui_count"]]
  /\ UNCHANGED <<invs, copies, reqs, recs, now, conc, titles, users, staff>>

RECURSIVE AvailableDocs(_, _, _)
\* Copy.find({ inventoryId, status: 'available' }).limit(k), from _id c on
AvailableDocs(i, c, k) ==
  IF c > Len(copies) \/ k = 0 THEN <<>>
  ELSE IF copies[c].live /\ copies[c].inv = i /\ copies[c].status = "available"
    THEN <<Doc(c, copies[c])>> \o AvailableDocs(i, c + 1, k - 1)
    ELSE AvailableDocs(i, c + 1, k)

\* const availableCopies = await Copy.find({...}).limit(copiesToRemove)
ui_list(p) ==
  LET l == pr[p]
      docs == AvailableDocs(l.iv.id, 1, l.i)
  IN
  /\ MayRun(p) /\ l.pc = "ui_list"
  /\ pr' = [pr EXCEPT ![p] =
        [l EXCEPT !.ids = docs, !.pc = IF docs = <<>> THEN "ui_count" ELSE "ui_del"]]
  /\ UNCHANGED <<invs, copies, reqs, recs, now, conc, titles, users, staff>>

\* for (const copy of availableCopies) { await copy.deleteOne() }
ui_del(p) ==
  LET l == pr[p] IN
  /\ MayRun(p) /\ l.pc = "ui_del"
  /\ copies' = [copies EXCEPT ![Head(l.ids).id] = NoCopy]
  /\ pr' = [pr EXCEPT ![p] =
        [l EXCEPT !.ids = Tail(l.ids),
                  !.pc = IF Tail(l.ids) = <<>> THEN "ui_count" ELSE "ui_del"]]
  /\ UNCHANGED <<invs, reqs, recs, now, conc, titles, users, staff>>

\* updates.availableCopies = await Copy.countDocuments({ inventoryId, status: 'available' })
ui_count(p) ==
  LET l == pr[p] IN
  /\ MayRun(p) /\ l.pc = "ui_count"
  /\ pr' = [pr EXCEPT ![p] = [l EXCEPT !.pc = "ui_update", !.i = CountAvailable(l.iv.id)]]
  /\ UNCHANGED <<invs, copies, reqs, recs, now, conc, titles, users, staff>>

\* await Inventory.findByIdAndUpdate(id, updates, { new: true, runValidators: true }):
\* the caller's totalCopies and the count; no save hook runs
ui_update(p) ==
  LET l == pr[p] IN
  /\ MayRun(p) /\ l.pc = "ui_update"
  /\ invs' = [invs EXCEPT ![l.iv.id].total = l.a.n, ![l.iv.id].avail = l.i]
  /\ pr' = [pr EXCEPT ![p] = RespondId(l, 200, "none", l.iv.id)]
  /\ UNCHANGED <<copies, reqs, recs, now, conc, titles, users, staff>>

\* ----- copyController ------------------------------------------------------
createCopy(p) ==
  \E i \in 1..MaxInvs, u \in staff, title \in Titles, st \in CopyInputs,
     barcode \in BarcodeInputs :
   \E lib \in LibParams(u) :
    /\ Len(copies) < MaxCopies
    /\ Start(p, "createCopy",
             [NoArgs EXCEPT !.id = i, !.lib = lib, !.title = title, !.status = st,
                           !.user = u, !.barcode = barcode],
             "cc_find")
    /\ UNCHANGED <<invs, copies, reqs, recs, now, conc, titles, users, staff>>

\* const copy = new Copy({...}); await copy.save()
NewCopy(l) ==
  Call([l EXCEPT !.cp = NewDoc(0, [inv |-> l.a.id, lib |-> l.a.lib,
                                   title |-> l.a.title, status |-> l.a.status,
                                   live |-> TRUE, barcode |-> l.a.barcode], NoCopy)],
       "cs_write", "cc_done")

\* const inventory = await Inventory.findById(inventoryId); the library and
\* the title of the body
cc_find(p) ==
  LET l == pr[p] IN
  /\ MayRun(p) /\ l.pc = "cc_find"
  /\ pr' = [pr EXCEPT ![p] =
        IF ~authorizeLibraryAccess(l.a.user, l.a.lib) THEN Denied(l)
        ELSE IF l.a.id \notin LiveInvs THEN Respond(l, 404, "Inventory not found")
        ELSE IF l.a.lib \notin Libs THEN Respond(l, 404, "Library not found")
        ELSE IF l.a.title \notin titles THEN Respond(l, 404, "Title not found")
        ELSE IF l.a.barcode # NoBarcode THEN [l EXCEPT !.pc = "cc_barcode"]
        ELSE NewCopy(l)]
  /\ UNCHANGED <<invs, copies, reqs, recs, now, conc, titles, users, staff>>

\* if (barcode) { const existingCopy = await Copy.findOne({ libraryId, barcode }) }
cc_barcode(p) ==
  LET l == pr[p] IN
  /\ MayRun(p) /\ l.pc = "cc_barcode"
  /\ pr' = [pr EXCEPT ![p] =
        IF \E c \in LiveCopies : copies[c].lib = l.a.lib /\ copies[c].barcode = l.a.barcode
          THEN Respond(l, 409, "Copy with this barcode already exists in this library")
          ELSE NewCopy(l)]
  /\ UNCHANGED <<invs, copies, reqs, recs, now, conc, titles, users, staff>>

\* Copy.findByIdAndUpdate(id, updates): no save hook runs
updateCopy(p) ==
  \E c \in 1..MaxCopies, st \in CopyInputs, u \in staff :
   \E lib \in LibParams(u) :
    /\ Start(p, "updateCopy",
             [NoArgs EXCEPT !.id = c, !.status = st, !.user = u, !.lib = lib],
             "uc_update")
    /\ UNCHANGED <<invs, copies, reqs, recs, now, conc, titles, users, staff>>

uc_update(p) ==
  LET l == pr[p] IN
  /\ MayRun(p) /\ l.pc = "uc_update"
  /\ IF ~authorizeLibraryAccess(l.a.user, l.a.lib)
       THEN /\ UNCHANGED copies
            /\ pr' = [pr EXCEPT ![p] = Denied(l)]
     ELSE IF l.a.id \in LiveCopies
       THEN /\ copies' = [copies EXCEPT ![l.a.id].status = l.a.status]
            /\ pr' = [pr EXCEPT ![p] = Respond(l, 200, "none")]
       ELSE /\ UNCHANGED copies
            /\ pr' = [pr EXCEPT ![p] = Respond(l, 404, "Copy not found")]
  /\ UNCHANGED <<invs, reqs, recs, now, conc, titles, users, staff>>

deleteCopy(p) ==
  \E c \in 1..MaxCopies :
    /\ Start(p, "deleteCopy", [NoArgs EXCEPT !.id = c], "dc_find")
    /\ UNCHANGED <<invs, copies, reqs, recs, now, conc, titles, users, staff>>

\* faulty variant: deleteCopy without the check for a borrowed copy
dc_find_unchecked(p) ==
  LET l == pr[p] IN
  /\ MayRun(p) /\ l.pc = "dc_find"
  /\ pr' = [pr EXCEPT ![p] =
        IF l.a.id \notin LiveCopies THEN Respond(l, 404, "Copy not found")
        ELSE [l EXCEPT !.pc = "dc_delete", !.cp = Doc(l.a.id, copies[l.a.id])]]
  /\ UNCHANGED <<invs, copies, reqs, recs, now, conc, titles, users, staff>>

\* const copy = await Copy.findById(id); the borrowed check
dc_find(p) ==
  LET l == pr[p] IN
  /\ MayRun(p) /\ l.pc = "dc_find"
  /\ pr' = [pr EXCEPT ![p] =
        IF l.a.id \notin LiveCopies THEN Respond(l, 404, "Copy not found")
        ELSE IF copies[l.a.id].status = "borrowed"
          THEN Respond(l, 400, "Cannot delete a copy that is currently borrowed")
          ELSE [l EXCEPT !.pc = "dc_delete", !.cp = Doc(l.a.id, copies[l.a.id])]]
  /\ UNCHANGED <<invs, copies, reqs, recs, now, conc, titles, users, staff>>

\* await copy.deleteOne(): the 'remove' hook is not a deleteOne hook
dc_delete(p) ==
  LET l == pr[p] IN
  /\ MayRun(p) /\ l.pc = "dc_delete"
  /\ copies' = [copies EXCEPT ![l.cp.id] = NoCopy]
  /\ pr' = [pr EXCEPT ![p] = Respond(l, 200, "none")]
  /\ UNCHANGED <<invs, reqs, recs, now, conc, titles, users, staff>>

\* ----- BorrowRequest and BorrowRecord save ---------------------------------

\* BorrowRequestSchema.pre('save')
PreSaveReq(d, t) ==
  IF d.doc.status # d.orig.status /\ d.doc.status # "pending" /\ d.doc.decidedAt = NoTime
    THEN [d EXCEPT !.doc.decidedAt = t] ELSE d

\* await request.save() at the end of updateBorrowRequest and cancelBorrowRequest
rq_save(p) ==
  LET l == pr[p] IN
  /\ MayRun(p) /\ l.pc = "rq_save"
  /\ reqs' = [reqs EXCEPT ![l.rq.id] = SaveDoc(reqs[l.rq.id], PreSaveReq(l.rq, now))]
  /\ pr' = [pr EXCEPT ![p] = RespondId(l, 200, "none", l.rq.id)]
  /\ UNCHANGED <<invs, copies, recs, now, conc, titles, users, staff>>

\* BorrowRecordSchema.pre('save'): a borrowed record past its due date is overdue
PreSaveRec(d, t) ==
  IF d.doc.status = "borrowed" /\ d.doc.returnDate = NoTime /\ t > d.doc.dueDate
    THEN [d EXCEPT !.doc.status = "overdue"] ELSE d

\* faulty variant: the { copyId, status } index without its unique option
NoBorrowedIndex(id, copy) == FALSE

\* unique index { copyId, status } with partialFilterExpression { status: 'borrowed' }
BorrowedIndexConflict(id, copy) ==
  \E r \in 1..Len(recs) : r # id /\ recs[r].copy = copy /\ recs[r].status = "borrowed"

\* BorrowRecordSchema.post('save') issues a Copy update for these statuses only
HookStatus(st) == st \in {"borrowed", "returned"}

\* await record.save(): validation of the modified paths, pre-save hook, then
\* the insert or the $set
rs_write(p) ==
  LET l == pr[p]
      d == PreSaveRec(l.rc, now)
      after(id) == IF HookStatus(d.doc.status)
                     THEN [l EXCEPT !.pc = "rs_hook", !.rc = [d EXCEPT !.id = id]]
                     ELSE Return([l EXCEPT !.rc = [d EXCEPT !.id = id]])
  IN
  /\ MayRun(p) /\ l.pc = "rs_write"
  /\ IF (d.isNew \/ d.doc.fees # d.orig.fees) /\ ~ValidFees(d.doc.fees)
       THEN \* ValidationError
            /\ UNCHANGED recs
            /\ pr' = [pr EXCEPT ![p] = Throw(l)]
     ELSE IF d.isNew
       THEN IF d.doc.status = "borrowed" /\ BorrowedIndexConflict(0, d.doc.copy)
              THEN /\ UNCHANGED recs
                   /\ pr' = [pr EXCEPT ![p] = Throw(l)]
              ELSE /\ Len(recs) < MaxRecs
                   /\ recs' = Append(recs, d.doc)
                   /\ pr' = [pr EXCEPT ![p] = after(Len(recs) + 1)]
       ELSE IF /\ d.doc.status # d.orig.status
               /\ d.doc.status = "borrowed"
               /\ BorrowedIndexConflict(d.id, recs[d.id].copy)
              THEN /\ UNCHANGED recs
                   /\ pr' = [pr EXCEPT ![p] = Throw(l)]
              ELSE /\ recs' = [recs EXCEPT ![d.id] = SaveDoc(recs[d.id], d)]
                   /\ pr' = [pr EXCEPT ![p] = after(d.id)]
  /\ UNCHANGED <<invs, copies, reqs, now, conc, titles, users, staff>>

\* BorrowRecordSchema.post('save'): Copy.findByIdAndUpdate(this.copyId, { status })
rs_hook(p) ==
  LET l == pr[p]
      c == l.rc.doc.copy
      st == IF l.rc.doc.status = "borrowed" THEN "borrowed" ELSE "available"
  IN
  /\ MayRun(p) /\ l.pc = "rs_hook"
  /\ copies' = IF c \in LiveCopies
                 THEN [copies EXCEPT ![c].status = st] ELSE copies
  /\ pr' = [pr EXCEPT ![p] = Return(l)]
  /\ UNCHANGED <<invs, reqs, recs, now, conc, titles, users, staff>>

\* ----- borrowRequestController ---------------------------------------------
InFlight(op) == Cardinality({q \in Procs : pr[q].op = op /\ pr[q].pc # "done"})

createBorrowRequest(p) ==
  \E u \in Members, lib \in LibInputs, title \in TitleInputs :
    /\ Len(reqs) + InFlight("createBorrowRequest") < MaxReqs
    /\ Start(p, "createBorrowRequest",
             [NoArgs EXCEPT !.user = u, !.lib = lib, !.title = title], "br_lib")
    /\ UNCHANGED <<invs, copies, reqs, recs, now, conc, titles, users, staff>>

\* const library = await Library.findById(libraryId)
br_lib(p) ==
  LET l == pr[p] IN
  /\ MayRun(p) /\ l.pc = "br_lib"
  /\ pr' = [pr EXCEPT ![p] =
        IF l.a.lib \notin Libs THEN Respond(l, 404, "Library not found")
        ELSE [l EXCEPT !.pc = "br_title"]]
  /\ UNCHANGED <<invs, copies, reqs, recs, now, conc, titles, users, staff>>

\* const title = await Title.findById(titleId)
br_title(p) ==
  LET l == pr[p] IN
  /\ MayRun(p) /\ l.pc = "br_title"
  /\ pr' = [pr EXCEPT ![p] =
        IF l.a.title \notin titles THEN Respond(l, 404, "Title not found")
        ELSE [l EXCEPT !.pc = "br_inv"]]
  /\ UNCHANGED <<invs, copies, reqs, recs, now, conc, titles, users, staff>>

\* faulty variant: createBorrowRequest without the availability check
br_inv_unchecked(p) ==
  LET l == pr[p]
      found == {i \in 1..Len(invs) : invs[i].lib = l.a.lib /\ invs[i].title = l.a.title}
  IN
  /\ MayRun(p) /\ l.pc = "br_inv"
  /\ pr' = [pr EXCEPT ![p] =
        IF found = {}
          THEN Respond(l, 404, "This title is not available in the selected library")
        ELSE LET i == CHOOSE i \in found : TRUE IN
          [l EXCEPT !.pc = "br_dup", !.iv = Doc(i, invs[i])]]
  /\ UNCHANGED <<invs, copies, reqs, recs, now, conc, titles, users, staff>>

\* const inventory = await Inventory.findOne({ libraryId, titleId })
br_inv(p) ==
  LET l == pr[p]
      found == {i \in 1..Len(invs) : invs[i].lib = l.a.lib /\ invs[i].title = l.a.title}
  IN
  /\ MayRun(p) /\ l.pc = "br_inv"
  /\ pr' = [pr EXCEPT ![p] =
        IF found = {}
          THEN Respond(l, 404, "This title is not available in the selected library")
        ELSE LET i == CHOOSE i \in found : TRUE IN
          IF invs[i].avail <= 0
            THEN Respond(l, 400, "No copies available for this title")
            ELSE [l EXCEPT !.pc = "br_dup", !.iv = Doc(i, invs[i])]]
  /\ UNCHANGED <<invs, copies, reqs, recs, now, conc, titles, users, staff>>

\* BorrowRequest.findOne({ userId, libraryId, titleId, status: 'pending' })
PendingRequestOf(u, lib, title) ==
  \E r \in 1..Len(reqs) : /\ reqs[r].user = u /\ reqs[r].lib = lib
                          /\ reqs[r].title = title /\ reqs[r].status = "pending"

br_dup(p) ==
  LET l == pr[p] IN
  /\ MayRun(p) /\ l.pc = "br_dup"
  /\ pr' = [pr EXCEPT ![p] =
        IF PendingRequestOf(l.a.user, l.a.lib, l.a.title)
          THEN Respond(l, 409, "You already have a pending request for this title")
          ELSE [l EXCEPT !.pc = "br_save"]]
  /\ UNCHANGED <<invs, copies, reqs, recs, now, conc, titles, users, staff>>

\* faulty variant: creating the request also takes one available copy out of
\* the inventory's count
br_save_reserving(p) ==
  LET l == pr[p] IN
  /\ MayRun(p) /\ l.pc = "br_save"
  /\ Len(reqs) < MaxReqs
  /\ reqs' = Append(reqs, [NoReq EXCEPT !.user = l.a.user, !.lib = l.a.lib,
                                        !.title = l.a.title, !.inv = l.iv.id,
                                        !.status = "pending"])
  /\ invs' = [invs EXCEPT ![l.iv.id].avail = invs[l.iv.id].avail - 1]
  /\ pr' = [pr EXCEPT ![p] = RespondId(l, 201, "none", Len(reqs) + 1)]
  /\ UNCHANGED <<copies, recs, now, conc, titles, users, staff>>

\* await request.save() of the new request
br_save(p) ==
  LET l == pr[p] IN
  /\ MayRun(p) /\ l.pc = "br_save"
  /\ Len(reqs) < MaxReqs
  /\ reqs' = Append(reqs, [NoReq EXCEPT !.user = l.a.user, !.lib = l.a.lib,
                                        !.title = l.a.title, !.inv = l.iv.id,
                                        !.status = "pending"])
  /\ pr' = [pr EXCEPT ![p] = RespondId(l, 201, "none", Len(reqs) + 1)]
  /\ UNCHANGED <<invs, copies, recs, now, conc, titles, users, staff>>

\* if (req.user?.role === 'admin' && req.user.libraries) { includes(libraryId) }
LibraryDenied(u, lib) == StaffRole(u) = "admin" /\ lib \notin StaffLibs(u)

updateBorrowRequest(p) ==
  \E r \in 1..MaxReqs, st \in RequestStatuses, u \in staff :
   \E lib \in LibParams(u) :
    /\ Start(p, "updateBorrowRequest",
             [NoArgs EXCEPT !.id = r, !.status = st, !.user = u, !.lib = lib],
             "ur_find")
    /\ UNCHANGED <<invs, copies, reqs, recs, now, conc, titles, users, staff>>

\* faulty variant: the decision is written to the store as soon as it is taken,
\* before a copy has been found
ur_find_persist(p) ==
  LET l == pr[p]
      r == l.a.id
      d == [Doc(r, reqs[r]) EXCEPT !.doc.status = l.a.status,
                                   !.doc.decidedBy = l.a.user,
                                   !.doc.decidedAt = now]
  IN
  /\ MayRun(p) /\ l.pc = "ur_find"
  /\ IF r \in LiveReqs /\ reqs[r].status = "pending"
       THEN /\ reqs' = [reqs EXCEPT ![r] = d.doc]
            /\ pr' = [pr EXCEPT ![p] =
                  [l EXCEPT !.rq = d,
                            !.pc = IF l.a.status = "approved" THEN "ur_copy" ELSE "rq_save"]]
       ELSE /\ UNCHANGED reqs
            /\ pr' = [pr EXCEPT ![p] = RespondId(l, 400, "Request has already been processed", r)]
  /\ UNCHANGED <<invs, copies, recs, now, conc, titles, users, staff>>

\* faulty variant: every decision, not only 'approved', allocates a copy
ur_find_allocating(p) ==
  LET l == pr[p]
      r == l.a.id
      d == [Doc(r, reqs[r]) EXCEPT !.doc.status = l.a.status,
                                   !.doc.decidedBy = l.a.user,
                                   !.doc.decidedAt = now]
  IN
  /\ MayRun(p) /\ l.pc = "ur_find"
  /\ pr' = [pr EXCEPT ![p] =
        IF r \notin LiveReqs THEN Respond(l, 404, "Borrow request not found")
        ELSE IF reqs[r].status # "pending"
          THEN RespondId(l, 400, "Request has already been processed", r)
        ELSE [l EXCEPT !.rq = d, !.pc = "ur_copy"]]
  /\ UNCHANGED <<invs, copies, reqs, recs, now, conc, titles, users, staff>>

\* const request = await BorrowRequest.findById(id); the checks; the
\* in-memory decision
ur_find(p) ==
  LET l == pr[p]
      r == l.a.id
      d == [Doc(r, reqs[r]) EXCEPT !.doc.status = l.a.status,
                                   !.doc.decidedBy = l.a.user,
                                   !.doc.decidedAt = now]
  IN
  /\ MayRun(p) /\ l.pc = "ur_find"
  /\ pr' = [pr EXCEPT ![p] =
        IF ~authorizeLibraryAccess(l.a.user, l.a.lib) THEN Denied(l)
        ELSE IF r \notin LiveReqs THEN Respond(l, 404, "Borrow request not found")
        ELSE IF reqs[r].status # "pending"
          THEN RespondId(l, 400, "Request has already been processed", r)
        ELSE IF LibraryDenied(l.a.user, reqs[r].lib)
          THEN RespondId(l, 403, "Access denied to this library", r)
        ELSE [l EXCEPT !.rq = d,
                       !.pc = IF l.a.status = "approved" THEN "ur_copy" ELSE "rq_save"]]
  /\ UNCHANGED <<invs, copies, reqs, recs, now, conc, titles, users, staff>>

\* const availableCopy = await Copy.findOne({ inventoryId, status: 'available' })
\* and the new BorrowRecord
ur_copy(p) ==
  LET l == pr[p]
      avail == {c \in LiveCopies : copies[c].inv = l.rq.doc.inv /\ copies[c].status = "available"}
      rec(c) == [NoRec EXCEPT !.user = l.rq.doc.user, !.lib = l.rq.doc.lib,
                              !.title = l.rq.doc.title, !.inv = l.rq.doc.inv,
                              !.copy = c, !.borrowDate = now,
                              !.dueDate = now + LoanDays, !.status = "borrowed",
                              !.approvedBy = l.a.user, !.req = l.rq.id]
  IN
  /\ MayRun(p) /\ l.pc = "ur_copy"
  /\ \/ /\ avail = {}
        /\ pr' = [pr EXCEPT ![p] = RespondId(l, 400, "No available copies found", l.rq.id)]
     \/ \E c \in avail :
          pr' = [pr EXCEPT ![p] =
            Call([l EXCEPT !.rq.doc.copy = c, !.cp = Doc(c, copies[c]),
                           !.rc = NewDoc(0, rec(c), NoRec)],
                 "rs_write", "ur_copysave")]
  /\ UNCHANGED <<invs, copies, reqs, recs, now, conc, titles, users, staff>>

cancelBorrowRequest(p) ==
  \E r \in 1..MaxReqs, u \in Members :
    /\ Start(p, "cancelBorrowRequest", [NoArgs EXCEPT !.id = r, !.user = u], "cr_find")
    /\ UNCHANGED <<invs, copies, reqs, recs, now, conc, titles, users, staff>>

\* faulty variant: cancelBorrowRequest without the ownership check
cr_find_unowned(p) ==
  LET l == pr[p]
      r == l.a.id
  IN
  /\ MayRun(p) /\ l.pc = "cr_find"
  /\ pr' = [pr EXCEPT ![p] =
        IF r \notin LiveReqs THEN Respond(l, 404, "Borrow request not found")
        ELSE IF reqs[r].status # "pending"
          THEN RespondId(l, 400, "Only pending requests can be cancelled", r)
        ELSE [l EXCEPT !.pc = "rq_save",
                       !.rq = [Doc(r, reqs[r]) EXCEPT !.doc.status = "cancelled",
                                                      !.doc.decidedAt = now]]]
  /\ UNCHANGED <<invs, copies, reqs, recs, now, conc, titles, users, staff>>

\* const request = await BorrowRequest.findById(id); the checks
cr_find(p) ==
  LET l == pr[p]
      r == l.a.id
  IN
  /\ MayRun(p) /\ l.pc = "cr_find"
  /\ pr' = [pr EXCEPT ![p] =
        IF r \notin LiveReqs THEN Respond(l, 404, "Borrow request not found")
        ELSE IF reqs[r].user # l.a.user THEN RespondId(l, 403, "Access denied", r)
        ELSE IF reqs[r].status # "pending"
          THEN RespondId(l, 400, "Only pending requests can be cancelled", r)
        ELSE [l EXCEPT !.pc = "rq_save",
                       !.rq = [Doc(r, reqs[r]) EXCEPT !.doc.status = "cancelled",
                                                      !.doc.decidedAt = now]]]
  /\ UNCHANGED <<invs, copies, reqs, recs, now, conc, titles, users, staff>>

\* ----- borrowRecordController ----------------------------------------------

\* BorrowRecord.findById(id).populate('copyId'): the record and its copy
LoadCopy(c) == IF c \in LiveCopies THEN Doc(c, copies[c]) ELSE Doc(0, NoCopy)

\* copy.status = st; await copy.save(); await Inventory.updateCopyCounts(...);
\* await record.save()  -- or, without a copy, record.save() alone
CloseLoan(l, st) ==
  IF l.cp.id # 0
    THEN Call([l EXCEPT !.cp.doc.status = st], "cs_write", "lr_ucc")
    ELSE Call(l, "rs_write", "lr_done")

updateBorrowRecord(p) ==
  \E r \in 1..MaxRecs, st \in LoanStatuses, f \in FeeInputs, u \in staff :
   \E lib \in LibParams(u) :
    /\ Start(p, "updateBorrowRecord",
             [NoArgs EXCEPT !.id = r, !.status = st, !.fees = f, !.user = u,
                           !.lib = lib], "ub_find")
    /\ UNCHANGED <<invs, copies, reqs, recs, now, conc, titles, users, staff>>

\* const record = await BorrowRecord.findById(id).populate('copyId'); the
\* check; the in-memory update
ub_find(p) ==
  LET l == pr[p]
      r == l.a.id
      old == recs[r].status
      d0 == [Doc(r, recs[r]) EXCEPT !.doc.status = l.a.status]
      d1 == IF l.a.fees # NoFees
              THEN [d0 EXCEPT !.doc.fees = MergeFees(recs[r].fees, l.a.fees)] ELSE d0
      d2 == IF l.a.status = "returned" /\ old # "returned"
              THEN [d1 EXCEPT !.doc.returnDate = now] ELSE d1
      m == [l EXCEPT !.rc = d2, !.cp = LoadCopy(recs[r].copy), !.old = old]
  IN
  /\ MayRun(p) /\ l.pc = "ub_find"
  /\ pr' = [pr EXCEPT ![p] =
        IF ~authorizeLibraryAccess(l.a.user, l.a.lib) THEN Denied(l)
        ELSE IF ~ValidFeeInput(l.a.fees) THEN Respond(l, 400, "Validation failed")
        ELSE IF r \notin LiveRecs THEN Respond(l, 404, "Borrow record not found")
        ELSE IF LibraryDenied(l.a.user, recs[r].lib)
          THEN RespondId(l, 403, "Access denied to this library", r)
        ELSE IF l.a.status = "returned" /\ old # "returned" THEN CloseLoan(m, "available")
        ELSE IF l.a.status = "lost" /\ old # "lost" THEN CloseLoan(m, "lost")
        ELSE Call(m, "rs_write", "lr_done")]
  /\ UNCHANGED <<invs, copies, reqs, recs, now, conc, titles, users, staff>>

returnBook(p) ==
  \E r \in 1..MaxRecs, f \in FeeInputs, u \in staff :
   \E lib \in LibParams(u) :
    /\ Start(p, "returnBook",
             [NoArgs EXCEPT !.id = r, !.fees = f, !.user = u, !.lib = lib], "rb_find")
    /\ UNCHANGED <<invs, copies, reqs, recs, now, conc, titles, users, staff>>

\* faulty variant: returnBook without the check for an already returned record
rb_find_unchecked(p) ==
  LET l == pr[p]
      r == l.a.id
      d0 == [Doc(r, recs[r]) EXCEPT !.doc.status = "returned", !.doc.returnDate = now]
      d1 == IF l.a.fees # NoFees
              THEN [d0 EXCEPT !.doc.fees = MergeFees(recs[r].fees, l.a.fees)] ELSE d0
      m == [l EXCEPT !.rc = d1, !.cp = LoadCopy(recs[r].copy), !.old = recs[r].status]
  IN
  /\ MayRun(p) /\ l.pc = "rb_find"
  /\ pr' = [pr EXCEPT ![p] =
        IF r \notin LiveRecs THEN Respond(l, 404, "Borrow record not found")
        ELSE CloseLoan(m, "available")]
  /\ UNCHANGED <<invs, copies, reqs, recs, now, conc, titles, users, staff>>

\* const record = await BorrowRecord.findById(id).populate('copyId'); the
\* checks; the in-memory return
rb_find(p) ==
  LET l == pr[p]
      r == l.a.id
      d0 == [Doc(r, recs[r]) EXCEPT !.doc.status = "returned", !.doc.returnDate = now]
      d1 == IF l.a.fees # NoFees
              THEN [d0 EXCEPT !.doc.fees = MergeFees(recs[r].fees, l.a.fees)] ELSE d0
      m == [l EXCEPT !.rc = d1, !.cp = LoadCopy(recs[r].copy), !.old = recs[r].status]
  IN
  /\ MayRun(p) /\ l.pc = "rb_find"
  /\ pr' = [pr EXCEPT ![p] =
        IF ~authorizeLibraryAccess(l.a.user, l.a.lib) THEN Denied(l)
        ELSE IF r \notin LiveRecs THEN Respond(l, 404, "Borrow record not found")
        ELSE IF recs[r].status = "returned"
          THEN RespondId(l, 400, "Book is already returned", r)
        ELSE IF LibraryDenied(l.a.user, recs[r].lib)
          THEN RespondId(l, 403, "Access denied to this library", r)
        ELSE CloseLoan(m, "available")]
  /\ UNCHANGED <<invs, copies, reqs, recs, now, conc, titles, users, staff>>

\* ----- NotificationService.sendOverdueNotifications ------------------------
RECURSIVE OverdueDocs(_)
\* the records of the find, in _id order, that the loop will save as overdue
OverdueDocs(r) ==
  IF r > Len(recs) THEN <<>>
  ELSE (IF recs[r].status = "borrowed" /\ recs[r].dueDate < now
          THEN <<Doc(r, recs[r])>> ELSE <<>>) \o OverdueDocs(r + 1)

sendOverdueNotifications(p) ==
  /\ Start(p, "sendOverdueNotifications", NoArgs, "sw_find")
  /\ UNCHANGED <<invs, copies, reqs, recs, now, conc, titles, users, staff>>

\* BorrowRecord.find({ status: { $in: ['borrowed', 'overdue'] }, dueDate: { $lt: new Date() } })
sw_find(p) ==
  LET l == pr[p] IN
  /\ MayRun(p) /\ l.pc = "sw_find"
  /\ pr' = [pr EXCEPT ![p] = Resume([l EXCEPT !.pc = "sw_next", !.ids = OverdueDocs(1)])]
  /\ UNCHANGED <<invs, copies, reqs, recs, now, conc, titles, users, staff>>

\* ----- borrowRecordController: the read paths ------------------------------

\* res.json({ success: true, data: { ... } }) with the documents of a find
RespondDocs(l, docs) == [Respond(l, 200, "none") EXCEPT !.ids = docs]

\* a filter of a find that is set only when the caller sent the parameter
Matches(param, value) == param = "none" \/ value = param

RECURSIVE FoundOverdue(_, _)
\* BorrowRecord.findOverdue(libraryId): status in ['borrowed', 'overdue'] and
\* dueDate before now; records are created in borrowDate order, so _id order
\* is the order of the sort by dueDate
FoundOverdue(r, libraryId) ==
  IF r > Len(recs) THEN <<>>
  ELSE (IF /\ recs[r].status \in {"borrowed", "overdue"} /\ recs[r].dueDate < now
           /\ Matches(libraryId, recs[r].lib)
          THEN <<Doc(r, recs[r])>> ELSE <<>>) \o FoundOverdue(r + 1, libraryId)

RECURSIVE FoundActive(_, _, _)
\* BorrowRecord.findActive(userId, libraryId): status in ['borrowed', 'overdue']
FoundActive(r, userId, libraryId) ==
  IF r > Len(recs) THEN <<>>
  ELSE (IF /\ recs[r].status \in {"borrowed", "overdue"}
           /\ Matches(userId, recs[r].user) /\ Matches(libraryId, recs[r].lib)
          THEN <<Doc(r, recs[r])>> ELSE <<>>) \o FoundActive(r + 1, userId, libraryId)

RECURSIVE FoundPending(_, _)
\* BorrowRequest.findPending(libraryId): status 'pending'
FoundPending(r, libraryId) ==
  IF r > Len(reqs) THEN <<>>
  ELSE (IF reqs[r].status = "pending" /\ Matches(libraryId, reqs[r].lib)
          THEN <<Doc(r, reqs[r])>> ELSE <<>>) \o FoundPending(r + 1, libraryId)

\* the query parameters of the listings: absent, or an id
UserParams == {"none"} \cup Members
LibQuery == {"none"} \cup Libs

\* router.get('/overdue', authorize('admin', 'superadmin'), getOverdueRecords)
getOverdueRecords(p) ==
  \E u \in staff, libraryId \in LibQuery :
    /\ Start(p, "getOverdueRecords", [NoArgs EXCEPT !.user = u, !.lib = libraryId],
             "go_find")
    /\ UNCHANGED <<invs, copies, reqs, recs, now, conc, titles, users, staff>>

\* const overdueRecords = await BorrowRecord.findOverdue(libraryId)
go_find(p) ==
  LET l == pr[p] IN
  /\ MayRun(p) /\ l.pc = "go_find"
  /\ pr' = [pr EXCEPT ![p] = RespondDocs(l, FoundOverdue(1, l.a.lib))]
  /\ UNCHANGED <<invs, copies, reqs, recs, now, conc, titles, users, staff>>

\* router.get('/active', getActiveLoans): any authenticated caller
getActiveLoans(p) ==
  \E u \in Members \cup staff, userId \in UserParams, libraryId \in LibQuery :
    /\ Start(p, "getActiveLoans",
             [NoArgs EXCEPT !.user = u, !.userId = userId, !.lib = libraryId], "ga_find")
    /\ UNCHANGED <<invs, copies, reqs, recs, now, conc, titles, users, staff>>

\* const loans = await BorrowRecord.findActive(userId, libraryId)
ga_find(p) ==
  LET l == pr[p] IN
  /\ MayRun(p) /\ l.pc = "ga_find"
  /\ pr' = [pr EXCEPT ![p] = RespondDocs(l, FoundActive(1, l.a.userId, l.a.lib))]
  /\ UNCHANGED <<invs, copies, reqs, recs, now, conc, titles, users, staff>>

\* router.get('/pending', authorize('admin', 'superadmin'), getPendingRequests)
getPendingRequests(p) ==
  \E u \in staff, libraryId \in LibQuery :
    /\ Start(p, "getPendingRequests", [NoArgs EXCEPT !.user = u, !.lib = libraryId],
             "gp_find")
    /\ UNCHANGED <<invs, copies, reqs, recs, now, conc, titles, users, staff>>

\* const requests = await BorrowRequest.findPending(libraryId)
gp_find(p) ==
  LET l == pr[p] IN
  /\ MayRun(p) /\ l.pc = "gp_find"
  /\ pr' = [pr EXCEPT ![p] = RespondDocs(l, FoundPending(1, l.a.lib))]
  /\ UNCHANGED <<invs, copies, reqs, recs, now, conc, titles, users, staff>>

\* ----- titleController.deleteTitle ------------------------------------------
deleteTitle(p) ==
  \E t \in TitleInputs :
    /\ Start(p, "deleteTitle", [NoArgs EXCEPT !.title = t], "dt_find")
    /\ UNCHANGED <<invs, copies, reqs, recs, now, conc, titles, users, staff>>

\* const title = await Title.findById(id)
dt_find(p) ==
  LET l == pr[p] IN
  /\ MayRun(p) /\ l.pc = "dt_find"
  /\ pr' = [pr EXCEPT ![p] =
        IF l.a.title \notin titles THEN Respond(l, 404, "Title not found")
        ELSE [l EXCEPT !.pc = "dt_invs"]]
  /\ UNCHANGED <<invs, copies, reqs, recs, now, conc, titles, users, staff>>

\* const inventories = await Inventory.find({ titleId: id })
dt_invs(p) ==
  LET l == pr[p] IN
  /\ MayRun(p) /\ l.pc = "dt_invs"
  /\ pr' = [pr EXCEPT ![p] =
        [l EXCEPT !.pc = "dt_copies",
                  !.inventoryIds = {i \in LiveInvs : invs[i].title = l.a.title}]]
  /\ UNCHANGED <<invs, copies, reqs, recs, now, conc, titles, users, staff>>

\* const copies = await Copy.find({ inventoryId: { $in: inventoryIds } })
dt_copies(p) ==
  LET l == pr[p] IN
  /\ MayRun(p) /\ l.pc = "dt_copies"
  /\ pr' = [pr EXCEPT ![p] =
        [l EXCEPT !.pc = "dt_count",
                  !.copyIds = {c \in LiveCopies : copies[c].inv \in l.inventoryIds}]]
  /\ UNCHANGED <<invs, copies, reqs, recs, now, conc, titles, users, staff>>

\* faulty variant: deleteTitle without the check for active borrow records
dt_count_unchecked(p) ==
  LET l == pr[p] IN
  /\ MayRun(p) /\ l.pc = "dt_count"
  /\ pr' = [pr EXCEPT ![p] = [l EXCEPT !.pc = "dt_recs"]]
  /\ UNCHANGED <<invs, copies, reqs, recs, now, conc, titles, users, staff>>

\* const activeBorrowRecords = await BorrowRecord.countDocuments({ copyId:
\* { $in: copyIds }, status: { $in: ['borrowed', 'overdue'] } }); the check
dt_count(p) ==
  LET l == pr[p]
      activeBorrowRecords ==
        Cardinality({r \in LiveRecs : /\ recs[r].copy \in l.copyIds
                                      /\ recs[r].status \in {"borrowed", "overdue"}})
  IN
  /\ MayRun(p) /\ l.pc = "dt_count"
  /\ pr' = [pr EXCEPT ![p] =
        IF activeBorrowRecords > 0
          THEN Respond(l, 400, "Cannot delete title with active borrow records. Please return all borrowed copies first.")
          ELSE [l EXCEPT !.pc = "dt_recs"]]
  /\ UNCHANGED <<invs, copies, reqs, recs, now, conc, titles, users, staff>>

\* await BorrowRecord.deleteMany({ copyId: { $in: copyIds } })
dt_recs(p) ==
  LET l == pr[p] IN
  /\ MayRun(p) /\ l.pc = "dt_recs"
  /\ recs' = [r \in 1..Len(recs) |->
                IF recs[r].copy \in l.copyIds THEN NoRec ELSE recs[r]]
  /\ pr' = [pr EXCEPT ![p] = [l EXCEPT !.pc = "dt_reqs"]]
  /\ UNCHANGED <<invs, copies, reqs, now, conc, titles, users, staff>>

\* await BorrowRequest.deleteMany({ titleId: id })
dt_reqs(p) ==
  LET l == pr[p] IN
  /\ MayRun(p) /\ l.pc = "dt_reqs"
  /\ reqs' = [r \in 1..Len(reqs) |->
                IF reqs[r].title = l.a.title THEN NoReq ELSE reqs[r]]
  /\ pr' = [pr EXCEPT ![p] = [l EXCEPT !.pc = "dt_cps"]]
  /\ UNCHANGED <<invs, copies, recs, now, conc, titles, users, staff>>

\* await Copy.deleteMany({ inventoryId: { $in: inventoryIds } })
dt_cps(p) ==
  LET l == pr[p] IN
  /\ MayRun(p) /\ l.pc = "dt_cps"
  /\ copies' = [c \in 1..Len(copies) |->
                  IF copies[c].inv \in l.inventoryIds THEN NoCopy ELSE copies[c]]
  /\ pr' = [pr EXCEPT ![p] = [l EXCEPT !.pc = "dt_inv"]]
  /\ UNCHANGED <<invs, reqs, recs, now, conc, titles, users, staff>>

\* await Inventory.deleteMany({ titleId: id })
dt_inv(p) ==
  LET l == pr[p] IN
  /\ MayRun(p) /\ l.pc = "dt_inv"
  /\ invs' = [i \in 1..Len(invs) |->
                IF invs[i].title = l.a.title THEN NoInv ELSE invs[i]]
  /\ pr' = [pr EXCEPT ![p] = [l EXCEPT !.pc = "dt_title"]]
  /\ UNCHANGED <<copies, reqs, recs, now, conc, titles, users, staff>>

\* await Title.findByIdAndDelete(id)
dt_title(p) ==
  LET l == pr[p] IN
  /\ MayRun(p) /\ l.pc = "dt_title"
  /\ titles' = titles \ {l.a.title}
  /\ pr' = [pr EXCEPT ![p] = Respond(l, 200, "none")]
  /\ UNCHANGED <<invs, copies, reqs, recs, now, conc, users, staff>>

\* ----- authController, the refresh middleware and userController ----------

\* User.findOne({ email })
UserByEmail(e) == {u \in 1..Len(users) : users[u].email = e}

register(p) ==
  \E email \in EmailInputs, role \in RoleInputs :
    /\ Len(users) + InFlight("register") < MaxUsers
    /\ Start(p, "register",
             [NoArgs EXCEPT !.email = email, !.role = role, !.password = "pw1"],
             "rg_find")
    /\ UNCHANGED <<invs, copies, reqs, recs, now, conc, titles, users, staff>>

\* status: role === 'guest' ? 'active' : 'pending'
InitialStatus ==
  [role \in {"guest", "student"} |-> IF role = "guest" THEN "active" ELSE "pending"]
\* faulty variant: every registered account starts active
AlwaysActive == [role \in {"guest", "student"} |-> "active"]

\* the body of register from registerValidation to new User({...}), with the
\* status that the new user gets
RegisterFind(l, statusOf) ==
  LET role == IF l.a.role = "none" THEN "guest" ELSE l.a.role
      e == normalizeEmail(l.a.email)
      existingUser == UserByEmail(e)
  IN
  IF l.a.role \notin {"none", "student", "guest"}
    THEN Respond(l, 400, "Validation failed")
  ELSE IF existingUser # {}
    THEN LET u == CHOOSE u \in existingUser : TRUE IN
         IF users[u].status = "rejected"
           THEN RespondId(l, 403, "Registration is blocked for this email. Please contact support.", u)
           ELSE RespondId(l, 409, "User with this email already exists", u)
  ELSE [l EXCEPT !.pc = "rg_save",
                 !.us = NewDoc(0, [NoUser EXCEPT !.email = e, !.role = role,
                                                 !.status = statusOf[role],
                                                 !.passwordHash = hash(l.a.password)],
                               NoUser)]

\* status: role === 'guest' ? 'active' : 'pending'

\* faulty variant: register with AlwaysActive
rg_find_active(p) ==
  LET l == pr[p] IN
  /\ MayRun(p) /\ l.pc = "rg_find"
  /\ pr' = [pr EXCEPT ![p] = RegisterFind(l, AlwaysActive)]
  /\ UNCHANGED <<invs, copies, reqs, recs, now, conc, titles, users, staff>>

\* validationResult(req); const existingUser = await User.findOne({ email });
\* the checks; new User({...})
rg_find(p) ==
  LET l == pr[p] IN
  /\ MayRun(p) /\ l.pc = "rg_find"
  /\ pr' = [pr EXCEPT ![p] = RegisterFind(l, InitialStatus)]
  /\ UNCHANGED <<invs, copies, reqs, recs, now, conc, titles, users, staff>>

\* faulty variant: the email index without its unique option
NoEmailIndex(e) == FALSE
\* UserSchema.index({ email: 1 }, { unique: true })
EmailIndexConflict(e) == UserByEmail(e) # {}

\* await user.save() of register with the index conflict given; then the
\* tokens for an active account and the response
RegisterSave(p, conflict) ==
  LET l == pr[p]
      active == l.us.doc.status = "active"
  IN
  /\ MayRun(p) /\ l.pc = "rg_save"
  /\ IF conflict
       THEN \* E11000 duplicate key
            /\ UNCHANGED users
            /\ pr' = [pr EXCEPT ![p] = Throw(l)]
       ELSE /\ users' = Append(users, [l.us.doc EXCEPT !.cookie = active])
            /\ pr' = [pr EXCEPT ![p] = RespondToken(l, 201, Len(users) + 1, active)]
  /\ UNCHANGED <<invs, copies, reqs, recs, now, conc, titles, staff>>

\* faulty variant: register saving without the unique index
rg_save_unindexed(p) == RegisterSave(p, NoEmailIndex(pr[p].us.doc.email))

rg_save(p) == RegisterSave(p, EmailIndexConflict(pr[p].us.doc.email))

login(p) ==
  \E email \in EmailInputs, password \in Passwords :
    /\ Start(p, "login", [NoArgs EXCEPT !.email = email, !.password = password],
             "lg_find")
    /\ UNCHANGED <<invs, copies, reqs, recs, now, conc, titles, users, staff>>

\* error: `Account is ${user.status}. Please contact an administrator.`
AccountIs(status) ==
  CASE status = "pending"   -> "Account is pending. Please contact an administrator."
    [] status = "rejected"  -> "Account is rejected. Please contact an administrator."
    [] status = "suspended" -> "Account is suspended. Please contact an administrator."
    [] OTHER                -> "none"

\* the body of login from User.findOne to user.lastLoginAt = new Date(), with
\* the statuses that may log in
LoginFind(l, allowed) ==
  LET found == UserByEmail(normalizeEmail(l.a.email)) IN
  IF found = {} THEN Respond(l, 401, "Invalid email or password")
  ELSE LET u == CHOOSE u \in found : TRUE IN
       IF ~comparePassword(l.a.password, users[u].passwordHash)
         THEN RespondId(l, 401, "Invalid email or password", u)
       ELSE IF users[u].status \notin allowed
         THEN RespondId(l, 403, AccountIs(users[u].status), u)
       ELSE [l EXCEPT !.pc = "lg_save",
                      !.us = [Doc(u, users[u]) EXCEPT !.doc.lastLoginAt = now]]

\* faulty variant: login without the check of the account status
lg_find_unchecked(p) ==
  LET l == pr[p] IN
  /\ MayRun(p) /\ l.pc = "lg_find"
  /\ pr' = [pr EXCEPT ![p] = LoginFind(l, UserStatuses)]
  /\ UNCHANGED <<invs, copies, reqs, recs, now, conc, titles, users, staff>>

\* const user = await User.findOne({ email }); comparePassword; the status check
lg_find(p) ==
  LET l == pr[p] IN
  /\ MayRun(p) /\ l.pc = "lg_find"
  /\ pr' = [pr EXCEPT ![p] = LoginFind(l, {"active"})]
  /\ UNCHANGED <<invs, copies, reqs, recs, now, conc, titles, users, staff>>

\* await user.save(); the tokens and the response
lg_save(p) ==
  LET l == pr[p] IN
  /\ MayRun(p) /\ l.pc = "lg_save"
  /\ users' = [users EXCEPT ![l.us.id] =
                  [SaveDoc(users[l.us.id], l.us) EXCEPT !.cookie = TRUE]]
  /\ pr' = [pr EXCEPT ![p] = RespondToken(l, 200, l.us.id, TRUE)]
  /\ UNCHANGED <<invs, copies, reqs, recs, now, conc, titles, staff>>

\* router.post('/refresh', refreshToken): the cookie is absent (0) or a
\* refresh token that was issued for a user
refreshToken(p) ==
  \E u \in 0..MaxUsers :
    /\ u # 0 => u \in 1..Len(users) /\ users[u].cookie
    /\ Start(p, "refreshToken", [NoArgs EXCEPT !.id = u], "rt_find")
    /\ UNCHANGED <<invs, copies, reqs, recs, now, conc, titles, users, staff>>

\* const user = await User.findById(payload.userId); the check; the tokens
rt_find(p) ==
  LET l == pr[p]
      u == l.a.id
  IN
  /\ MayRun(p) /\ l.pc = "rt_find"
  /\ pr' = [pr EXCEPT ![p] =
        IF u = 0 THEN Respond(l, 401, "Refresh token required")
        ELSE IF u \notin 1..Len(users) \/ users[u].status # "active"
          THEN RespondId(l, 401, "User not found or inactive", u)
        ELSE RespondToken(l, 200, u, TRUE)]
  /\ UNCHANGED <<invs, copies, reqs, recs, now, conc, titles, users, staff>>

\* the checks of approveStudent and rejectStudent on a user of role student
\* or guest, and the new status in memory
DecideStudent(l, status, notStudent) ==
  LET u == l.a.id IN
  IF u \notin 1..Len(users) THEN Respond(l, 404, "User not found")
  ELSE IF users[u].role # "student"
    THEN RespondId(l, 400, notStudent, u)
  ELSE IF users[u].status # "pending"
    THEN RespondId(l, 400, "User is not pending approval", u)
  ELSE [l EXCEPT !.pc = "us_save",
                 !.us = [Doc(u, users[u]) EXCEPT !.doc.status = status]]

approveStudent(p) ==
  \E u \in 1..MaxUsers, caller \in staff :
    /\ Start(p, "approveStudent", [NoArgs EXCEPT !.id = u, !.user = caller],
             "as_find")
    /\ UNCHANGED <<invs, copies, reqs, recs, now, conc, titles, users, staff>>

\* const user = await User.findById(id); a user of role admin is approved by
\* a superadmin whatever the status; otherwise the checks; user.status = 'active'
as_find(p) ==
  LET l == pr[p]
      u == l.a.id
  IN
  /\ MayRun(p) /\ l.pc = "as_find"
  /\ pr' = [pr EXCEPT ![p] =
        IF u \in 1..Len(users) /\ users[u].role = "admin"
          THEN IF StaffRole(l.a.user) # "superadmin"
                 THEN RespondId(l, 403, "Only superadmin can approve admins", u)
                 ELSE [l EXCEPT !.pc = "us_save",
                                !.us = [Doc(u, users[u]) EXCEPT !.doc.status = "active"]]
          ELSE DecideStudent(l, "active", "User is not a student or admin")]
  /\ UNCHANGED <<invs, copies, reqs, recs, now, conc, titles, users, staff>>

rejectStudent(p) ==
  \E u \in 1..MaxUsers :
    /\ Start(p, "rejectStudent", [NoArgs EXCEPT !.id = u], "rj_find")
    /\ UNCHANGED <<invs, copies, reqs, recs, now, conc, titles, users, staff>>

\* const user = await User.findById(id); the checks; user.status = 'rejected'
rj_find(p) ==
  LET l == pr[p] IN
  /\ MayRun(p) /\ l.pc = "rj_find"
  /\ pr' = [pr EXCEPT ![p] = DecideStudent(l, "rejected", "User is not a student")]
  /\ UNCHANGED <<invs, copies, reqs, recs, now, conc, titles, users, staff>>

\* await user.save() of approveStudent and rejectStudent
us_save(p) ==
  LET l == pr[p] IN
  /\ MayRun(p) /\ l.pc = "us_save"
  /\ users' = [users EXCEPT ![l.us.id] = SaveDoc(users[l.us.id], l.us)]
  /\ pr' = [pr EXCEPT ![p] = RespondId(l, 200, "none", l.us.id)]
  /\ UNCHANGED <<invs, copies, reqs, recs, now, conc, titles, staff>>

\* the body of an update: a status, an email or a role
updateUser(p) ==
  \E u \in 1..MaxUsers, status \in {"none", "active", "suspended"},
     email \in {"none"} \cup EmailInputs, role \in {"none", "admin"},
     caller \in staff :
    /\ Cardinality({f \in {status, email, role} : f # "none"}) = 1
    /\ Start(p, "updateUser",
             [NoArgs EXCEPT !.id = u, !.status = status, !.email = email,
                           !.role = role, !.user = caller], "uu_find")
    /\ UNCHANGED <<invs, copies, reqs, recs, now, conc, titles, users, staff>>

\* const existingUser = await User.findById(id); the checks
uu_find(p) ==
  LET l == pr[p]
      u == l.a.id
  IN
  /\ MayRun(p) /\ l.pc = "uu_find"
  /\ pr' = [pr EXCEPT ![p] =
        IF u \in 1..Len(users) /\ users[u].role = "superadmin"
          THEN RespondId(l, 403, "Cannot modify super admin user", u)
        ELSE IF /\ u \in 1..Len(users) /\ StaffRole(l.a.user) = "admin"
                /\ users[u].role \in {"admin", "superadmin"}
          THEN RespondId(l, 403, "Admins cannot modify admin or superadmin users", u)
        ELSE IF u \in 1..Len(users) /\ users[u].status = "rejected" /\ l.a.status # "none"
          THEN RespondId(l, 400, "Rejected users cannot change status", u)
          ELSE [l EXCEPT !.pc = "uu_update"]]
  /\ UNCHANGED <<invs, copies, reqs, recs, now, conc, titles, users, staff>>

\* const user = await User.findByIdAndUpdate(id, updates, { runValidators: true })
uu_update(p) ==
  LET l == pr[p]
      u == l.a.id
      e == normalizeEmail(l.a.email)
  IN
  /\ MayRun(p) /\ l.pc = "uu_update"
  /\ IF u \notin 1..Len(users)
       THEN /\ UNCHANGED users
            /\ pr' = [pr EXCEPT ![p] = Respond(l, 404, "User not found")]
     ELSE IF l.a.email # "none" /\ UserByEmail(e) \ {u} # {}
       THEN \* E11000 duplicate key
            /\ UNCHANGED users
            /\ pr' = [pr EXCEPT ![p] = Throw(l)]
     ELSE /\ users' = [users EXCEPT ![u] =
                 IF l.a.email # "none" THEN [@ EXCEPT !.email = e]
                 ELSE IF l.a.role # "none" THEN [@ EXCEPT !.role = l.a.role]
                 ELSE [@ EXCEPT !.status = l.a.status]]
          /\ pr' = [pr EXCEPT ![p] = RespondId(l, 200, "none", u)]
  /\ UNCHANGED <<invs, copies, reqs, recs, now, conc, titles, staff>>

\* ----- specifications ------------------------------------------------------

\* the hooks and statics that the handlers call
SubSteps(p) ==
  \/ rq_save(p) \/ rs_write(p) \/ rs_hook(p)
  \/ cs_write(p) \/ ucc_find(p) \/ ucc_total(p) \/ ucc_avail(p) \/ ucc_save(p)
  \/ Finish(p)

\* Spec: the stock handlers (inventories and copies), one call at a time,
\* from the empty store
StockStep(p) ==
  \/ createInventory(p) \/ ci_find(p) \/ ci_save(p)
  \/ updateInventory(p) \/ ui_find(p) \/ ui_list(p) \/ ui_del(p)
  \/ ui_count(p) \/ ui_update(p)
  \/ createCopy(p) \/ cc_find(p) \/ cc_barcode(p)
  \/ updateCopy(p) \/ uc_update(p)
  \/ deleteCopy(p) \/ dc_find(p) \/ dc_delete(p)
  \/ cs_pre(p) \/ cs_write(p) \/ ucc_find(p) \/ ucc_total(p) \/ ucc_avail(p) \/ ucc_save(p)
  \/ Finish(p)

Next == \E p \in Procs : StockStep(p)

Spec == Init /\ [][Next]_vars

\* a store the program reaches by createInventory and createBorrowRequest:
\* one inventory with n available copies and the pending requests of users us
Seeded(n, us) ==
  /\ invs = <<[lib |-> "L1", title |-> "T1", total |-> n, avail |-> n]>>
  /\ copies = [c \in 1..n |-> [inv |-> 1, lib |-> "L1", title |-> "T1",
                                status |-> "available", live |-> TRUE,
                                barcode |-> Barcode(LibCode("L1"), c)]]
  /\ reqs = [r \in 1..Len(us) |-> [NoReq EXCEPT !.user = us[r], !.lib = "L1",
                                                !.title = "T1", !.inv = 1,
                                                !.status = "pending"]]
  /\ recs = <<>>
  /\ now = 0
  /\ pr = [p \in Procs |-> Idle]
  /\ titles = Titles /\ users = <<>> /\ staff = {"a1"}

\* SpecLoan: the decision on a request and the loan handlers, one call at a time
InitLoan ==
  /\ Seeded(LoanCopies, <<"u1">>)
  /\ conc = FALSE

LoanStep(p) ==
  \/ updateBorrowRequest(p) \/ ur_find(p) \/ ur_copy(p)
  \/ updateBorrowRecord(p) \/ ub_find(p)
  \/ returnBook(p) \/ rb_find(p)
  \/ sendOverdueNotifications(p) \/ sw_find(p)
  \/ SubSteps(p)

NextLoan == Tick \/ \E p \in Procs : LoanStep(p)

SpecLoan == InitLoan /\ [][NextLoan]_vars

\* SpecConc: the decisions of two staff callers and the cancellations of
\* the requesters, interleaved at every awaited call
InitConc ==
  /\ \E n \in 1..MaxCopies : Seeded(n, <<"u1", "u2">>)
  /\ conc = TRUE

ConcStep(p) ==
  \/ updateBorrowRequest(p) \/ ur_find(p) \/ ur_copy(p)
  \/ cancelBorrowRequest(p) \/ cr_find(p)
  \/ SubSteps(p)

NextConc == \E p \in Procs : ConcStep(p)

SpecConc == InitConc /\ [][NextConc]_vars

\* SpecCreate: createBorrowRequest and cancelBorrowRequest calls, interleaved
InitCreate ==
  /\ \E n \in 1..MaxCopies : Seeded(n, <<>>)
  /\ conc = TRUE

CreateStep(p) ==
  \/ createBorrowRequest(p) \/ br_lib(p) \/ br_title(p)
  \/ br_inv(p) \/ br_dup(p) \/ br_save(p)
  \/ cancelBorrowRequest(p) \/ cr_find(p)
  \/ rq_save(p) \/ Finish(p)

NextCreate == \E p \in Procs : CreateStep(p)

SpecCreate == InitCreate /\ [][NextCreate]_vars

\* SpecDesk: the staff desk, one call at a time: copy status edits, copy
\* deletions and request decisions on a stocked inventory
InitDesk ==
  /\ Seeded(MaxCopies, <<"u1", "u2">>)
  /\ conc = FALSE

DeskStep(p) ==
  \/ updateCopy(p) \/ uc_update(p)
  \/ deleteCopy(p) \/ dc_find(p) \/ dc_delete(p)
  \/ updateBorrowRequest(p) \/ ur_find(p) \/ ur_copy(p)
  \/ SubSteps(p)

NextDesk == \E p \in Procs : DeskStep(p)

SpecDesk == InitDesk /\ [][NextDesk]_vars

\* SpecRecount: copy creations and request decisions of two callers on one
\* inventory, interleaved at every awaited call
InitRecount ==
  /\ Seeded(LoanCopies, <<"u1">>)
  /\ conc = TRUE

RecountStep(p) ==
  \/ createCopy(p) \/ cc_find(p) \/ cc_barcode(p) \/ cs_pre(p)
  \/ updateBorrowRequest(p) \/ ur_find(p) \/ ur_copy(p)
  \/ SubSteps(p)

NextRecount == \E p \in Procs : RecountStep(p)

SpecRecount == InitRecount /\ [][NextRecount]_vars

\* SpecRequest: members ask and staff decide, one call at a time, on an
\* inventory created with 0 to MaxCopies copies
InitRequest ==
  /\ \E n \in 0..MaxCopies : Seeded(n, <<>>)
  /\ conc = FALSE

RequestStep(p) ==
  \/ createBorrowRequest(p) \/ br_lib(p) \/ br_title(p)
  \/ br_inv(p) \/ br_dup(p) \/ br_save(p)
  \/ updateBorrowRequest(p) \/ ur_find(p) \/ ur_copy(p)
  \/ cancelBorrowRequest(p) \/ cr_find(p)
  \/ SubSteps(p)

NextRequest == \E p \in Procs : RequestStep(p)

SpecRequest == InitRequest /\ [][NextRequest]_vars

\* SpecTitle: loans are made and returned, copies and titles are deleted, one
\* call at a time
InitTitle ==
  /\ Seeded(LoanCopies, <<"u1">>)
  /\ conc = FALSE

TitleStep(p) ==
  \/ updateBorrowRequest(p) \/ ur_find(p) \/ ur_copy(p)
  \/ returnBook(p) \/ rb_find(p)
  \/ deleteCopy(p) \/ dc_find(p) \/ dc_delete(p)
  \/ deleteTitle(p) \/ dt_find(p) \/ dt_invs(p) \/ dt_copies(p) \/ dt_count(p)
  \/ dt_recs(p) \/ dt_reqs(p) \/ dt_cps(p) \/ dt_inv(p) \/ dt_title(p)
  \/ SubSteps(p)

NextTitle == \E p \in Procs : TitleStep(p)

SpecTitle == InitTitle /\ [][NextTitle]_vars

\* SpecScope: two admins, a1 of the library and a2 of another one, and the
\* members decide, return, edit copies and list, one call at a time
InitScope ==
  /\ invs = <<[lib |-> "L1", title |-> "T1", total |-> LoanCopies, avail |-> LoanCopies]>>
  /\ copies = [c \in 1..LoanCopies |-> [inv |-> 1, lib |-> "L1", title |-> "T1",
                                         status |-> "available", live |-> TRUE,
                                         barcode |-> Barcode(LibCode("L1"), c)]]
  /\ reqs = <<[NoReq EXCEPT !.user = "u1", !.lib = "L1", !.title = "T1", !.inv = 1,
                            !.status = "pending"]>>
  /\ recs = <<>>
  /\ now = 0
  /\ pr = [p \in Procs |-> Idle]
  /\ conc = FALSE
  /\ titles = Titles /\ users = <<>>
  /\ staff = Staff

ScopeStep(p) ==
  \/ updateBorrowRequest(p) \/ ur_find(p) \/ ur_copy(p)
  \/ returnBook(p) \/ rb_find(p)
  \/ updateCopy(p) \/ uc_update(p)
  \/ getOverdueRecords(p) \/ go_find(p)
  \/ getActiveLoans(p) \/ ga_find(p)
  \/ getPendingRequests(p) \/ gp_find(p)
  \/ SubSteps(p)

NextScope == Tick \/ \E p \in Procs : ScopeStep(p)

SpecScope == InitScope /\ [][NextScope]_vars

\* SpecOverdue: two requests for the one copy of a title are decided, loans
\* fall overdue and are returned, copies are edited, one call at a time
InitOverdue ==
  /\ Seeded(LoanCopies, <<"u1", "u2">>)
  /\ conc = FALSE

OverdueStep(p) ==
  \/ updateBorrowRequest(p) \/ ur_find(p) \/ ur_copy(p)
  \/ returnBook(p) \/ rb_find(p)
  \/ updateCopy(p) \/ uc_update(p)
  \/ sendOverdueNotifications(p) \/ sw_find(p)
  \/ SubSteps(p)

NextOverdue == Tick \/ \E p \in Procs : OverdueStep(p)

SpecOverdue == InitOverdue /\ [][NextOverdue]_vars

\* the empty store of a new deployment
Empty ==
  /\ invs = <<>> /\ copies = <<>> /\ reqs = <<>> /\ recs = <<>>
  /\ now = 0
  /\ pr = [p \in Procs |-> Idle]
  /\ titles = Titles /\ users = <<>>

\* SpecAuth: registration, login, token refresh and the decisions of an admin
\* and of the superadmin on the accounts, one call at a time
InitAuth == Empty /\ staff = {"a1", "s1"} /\ conc = FALSE

AuthStep(p) ==
  \/ register(p) \/ rg_find(p) \/ rg_save(p)
  \/ login(p) \/ lg_find(p) \/ lg_save(p)
  \/ refreshToken(p) \/ rt_find(p)
  \/ approveStudent(p) \/ as_find(p)
  \/ rejectStudent(p) \/ rj_find(p) \/ us_save(p)
  \/ updateUser(p) \/ uu_find(p) \/ uu_update(p)
  \/ Finish(p)

NextAuth == \E p \in Procs : AuthStep(p)

SpecAuth == InitAuth /\ [][NextAuth]_vars

\* SpecSignup: registrations and rejections, in runs with one call at a time
\* and in runs where two callers interleave
InitSignup == Empty /\ staff = {"a1"} /\ conc \in BOOLEAN

SignupStep(p) ==
  \/ register(p) \/ rg_find(p) \/ rg_save(p)
  \/ rejectStudent(p) \/ rj_find(p) \/ us_save(p)
  \/ Finish(p)

NextSignup == \E p \in Procs : SignupStep(p)

SpecSignup == InitSignup /\ [][NextSignup]_vars

\* ----- properties ----------------------------------------------------------

\* no handler is between two of its awaited calls
Quiet == \A p \in Procs : pr[p].pc \in {"idle", "done"}

\* process p has answered a call of handler op
Done(p, op) == pr[p].pc = "done" /\ pr[p].op = op

\* C1: after any Copy or Loan mutating operation has completed, each
\* Inventory's availableCopies equals the number of its copies whose status
\* is 'available'.  (Spec; updateCopy and deleteCopy never recount.)
C1_AvailableMatchesCopies ==
  Quiet => \A i \in 1..Len(invs) : invs[i].avail = CountAvailable(i)

\* the borrowed loans that reference copy c
BorrowedLoans(c) == {r \in 1..Len(recs) : recs[r].copy = c /\ recs[r].status = "borrowed"}

Approvals ==
  {p \in Procs : /\ Done(p, "updateBorrowRequest") /\ pr[p].a.status = "approved"
                 /\ pr[p].res.code \notin {403, 404}
                 /\ pr[p].res.error # "Request has already been processed"}

\* C3: N concurrent approve decisions on N distinct pending requests of an
\* inventory with M < N available copies: exactly M succeed, the others
\* fail with 'No available copies found' and with no other error.
\* (SpecConc, N = 2, M = 1)
C3_ScarceCopyRace ==
  (Approvals = Procs /\ pr[1].a.id # pr[2].a.id /\ Len(copies) = 1)
    => /\ Cardinality({p \in Approvals : pr[p].res.code = 200}) = 1
       /\ \A p \in Approvals :
            pr[p].res.code # 200 => pr[p].res.error = "No available copies found"

\* C4: an approve decision that finds no available copy fails and persists
\* nothing: the store is as it was when the call started and the request is
\* still pending.  (SpecRequest)
C4_NoCopyNothingPersisted ==
  \A p \in Procs :
    (Done(p, "updateBorrowRequest") /\ pr[p].res.error = "No available copies found")
      => /\ pr[p].res.code = 400
         /\ DB = pr[p].snap
         /\ reqs[pr[p].a.id].status = "pending"
         /\ reqs[pr[p].a.id].copy = 0

C4_Witness ==
  \E p \in Procs :
    /\ Done(p, "updateBorrowRequest") /\ pr[p].res.error = "No available copies found"
    /\ \E r \in 1..Len(recs) : recs[r].status = "borrowed"

\* C5: the approval is all-or-nothing: no reachable state holds a
\* BorrowRecord whose request is still 'pending', nor an approved request
\* without its BorrowRecord and a copy marked 'borrowed'.  (SpecConc)
C5_ApprovalAllOrNothing ==
  /\ \A r \in 1..Len(recs) : reqs[recs[r].req].status # "pending"
  /\ \A q \in 1..Len(reqs) :
       reqs[q].status = "approved"
         => /\ \E r \in 1..Len(recs) : recs[r].req = q
            /\ reqs[q].copy \in LiveCopies
            /\ copies[reqs[q].copy].status = "borrowed"

\* C6: once a request is approved, rejected or cancelled, no call changes
\* its status, decidedBy, decidedAt or copyId again.  (SpecConc)
C6_DecidedRequestImmutable ==
  [][\A r \in 1..Len(reqs) : reqs[r].status # "pending" => reqs'[r] = reqs[r]]_vars

\* C7: at most one pending BorrowRequest per (userId, libraryId, titleId),
\* interleaved createBorrowRequest calls included.  (SpecCreate)
C7_OnePendingPerTriple ==
  \A a, b \in 1..Len(reqs) :
    (a # b /\ reqs[a].status = "pending" /\ reqs[b].status = "pending")
      => <<reqs[a].user, reqs[a].lib, reqs[a].title>> # <<reqs[b].user, reqs[b].lib, reqs[b].title>>

\* the moves of the loan state machine of the specification
LoanMoves ==
  {<<"borrowed", "overdue">>, <<"borrowed", "returned">>, <<"borrowed", "lost">>,
   <<"overdue", "returned">>, <<"overdue", "lost">>}

\* C8: a BorrowRecord's status follows only borrowed -> {overdue, returned,
\* lost} and overdue -> {returned, lost}; 'returned' and 'lost' are never
\* left.  (SpecLoan)
C8_LoanStatusMoves ==
  [][\A r \in 1..Len(recs) :
       recs'[r].status # recs[r].status => <<recs[r].status, recs'[r].status>> \in LoanMoves]_vars

\* C9: returnBook on a record that is already returned fails with 'Book is
\* already returned' and leaves the record (returnDate and fees included),
\* its Copy and its Inventory as they were; on a record that is not yet
\* returned it succeeds, when the fees it carries are not negative, and the
\* record is returned.  (SpecLoan)
C9_SecondReturnRejected ==
  \A p \in Procs :
    (Done(p, "returnBook") /\ pr[p].a.id \in 1..Len(pr[p].snap.recs))
      => IF pr[p].snap.recs[pr[p].a.id].status = "returned"
           THEN /\ pr[p].res.code = 400
                /\ pr[p].res.error = "Book is already returned"
                /\ DB = pr[p].snap
           ELSE ValidFeeInput(pr[p].a.fees)
                  => /\ pr[p].res.code = 200
                     /\ recs[pr[p].a.id].status = "returned"
                     /\ recs[pr[p].a.id].returnDate = now

\* C9 witness: a second returnBook, later than the first and with new fees,
\* has been answered
C9_Witness ==
  \E p \in Procs :
    /\ Done(p, "returnBook") /\ pr[p].res.code = 400
    /\ pr[p].a.fees # NoFees
    /\ recs[pr[p].a.id].returnDate # NoTime
    /\ recs[pr[p].a.id].returnDate < now
    /\ recs[pr[p].a.id].fees = DefaultFees

\* C10: marking a loan lost fails and changes nothing when the record is
\* already returned or lost; otherwise the record and its Copy become
\* 'lost' and the Inventory counts are recomputed.  (SpecLoan)
C10_MarkLost ==
  \A p \in Procs :
    (Done(p, "updateBorrowRecord") /\ pr[p].a.status = "lost"
       /\ ValidFeeInput(pr[p].a.fees)
       /\ pr[p].a.id \in 1..Len(pr[p].snap.recs))
      => IF pr[p].snap.recs[pr[p].a.id].status \in {"returned", "lost"}
           THEN pr[p].res.code >= 400 /\ DB = pr[p].snap
           ELSE /\ pr[p].res.code = 200
                /\ recs[pr[p].a.id].status = "lost"
                /\ copies[recs[pr[p].a.id].copy].status = "lost"
                /\ invs[recs[pr[p].a.id].inv].avail = CountAvailable(recs[pr[p].a.id].inv)

\* C11: a read path that returns a BorrowRecord whose dueDate has passed
\* has stored it as 'overdue' by the time it answers: after
\* getOverdueRecords (findOverdue) or getActiveLoans (findActive) has
\* answered, every record it returned with a past dueDate has the stored
\* status 'overdue'.  (SpecScope)
C11_ReadMarksOverdue ==
  \A p \in Procs :
    (Done(p, "getOverdueRecords") \/ Done(p, "getActiveLoans"))
      => \A k \in 1..Len(pr[p].ids) :
           recs[pr[p].ids[k].id].dueDate < now
             => recs[pr[p].ids[k].id].status = "overdue"

\* C12: a successful approve decision flips exactly one Copy of the
\* request's inventory from 'available' to 'borrowed', assigns it to the
\* request, stores the request as 'approved' with decidedBy and decidedAt,
\* creates exactly one BorrowRecord (same user, library, title, inventory,
\* copy; 'borrowed'; approvedBy the decider; dueDate = borrowDate + 14) and
\* leaves availableCopies exactly one lower than before the call.  (SpecDesk)
C12_ApproveEffect ==
  \A p \in Procs :
    (Done(p, "updateBorrowRequest") /\ pr[p].res.code = 200 /\ pr[p].a.status = "approved")
      => LET q == pr[p].a.id
             S == pr[p].snap
             c == reqs[q].copy
             r == Len(recs)
         IN /\ {k \in 1..Len(copies) : copies[k] # S.copies[k]} = {c}
            /\ S.copies[c].status = "available" /\ copies[c].status = "borrowed"
            /\ copies[c].inv = reqs[q].inv
            /\ reqs[q].status = "approved" /\ reqs[q].decidedBy = pr[p].a.user
            /\ reqs[q].decidedAt = now
            /\ Len(recs) = Len(S.recs) + 1
            /\ \A k \in 1..Len(S.recs) : recs[k] = S.recs[k]
            /\ recs[r] = [NoRec EXCEPT !.user = reqs[q].user, !.lib = reqs[q].lib,
                                       !.title = reqs[q].title, !.inv = reqs[q].inv,
                                       !.copy = c, !.borrowDate = now,
                                       !.dueDate = now + LoanDays,
                                       !.status = "borrowed",
                                       !.approvedBy = pr[p].a.user, !.req = q]
            /\ invs[reqs[q].inv].avail = S.invs[reqs[q].inv].avail - 1

\* C13: returnBook on a 'borrowed' or 'overdue' record sets the record to
\* 'returned' with its returnDate, sets its Copy to 'available' and leaves
\* availableCopies exactly one higher than before, equal to the recount;
\* the fee fields supplied overwrite those fields only.  (SpecLoan)
C13_ReturnEffect ==
  \A p \in Procs :
    (/\ Done(p, "returnBook") /\ pr[p].a.id \in 1..Len(pr[p].snap.recs)
     /\ ValidFeeInput(pr[p].a.fees)
     /\ pr[p].snap.recs[pr[p].a.id].status \in {"borrowed", "overdue"})
      => LET r == pr[p].a.id
             S == pr[p].snap
             i == recs[r].inv
         IN /\ pr[p].res.code = 200
            /\ recs[r].status = "returned" /\ recs[r].returnDate = now
            /\ copies[recs[r].copy].status = "available"
            /\ invs[i].avail = CountAvailable(i)
            /\ invs[i].avail = S.invs[i].avail + 1
            /\ \A k \in DOMAIN recs[r].fees :
                 recs[r].fees[k] = IF k \in DOMAIN pr[p].a.fees
                                     THEN pr[p].a.fees[k] ELSE S.recs[r].fees[k]

\* C14: whatever the interleaving of concurrent operations that change copy
\* statuses of one inventory, once all of them have returned the stored
\* availableCopies and totalCopies are the actual counts of its copies.
\* (SpecRecount: approvals and copy creations)
C14_RecountNotOverwritten ==
  Quiet => \A i \in 1..Len(invs) : /\ invs[i].avail = CountAvailable(i)
                                   /\ invs[i].total = CountCopies(i)

\* C15: in every reachable state every Inventory has
\* 0 <= availableCopies <= totalCopies, whichever operation wrote it.  (Spec)
C15_AvailableWithinTotal ==
  \A i \in 1..Len(invs) : 0 <= invs[i].avail /\ invs[i].avail <= invs[i].total

\* the handlers that create or delete copies
CopyCountOps == {"createCopy", "deleteCopy", "createInventory", "updateInventory"}

\* C16: after a copy creation or deletion has completed (createCopy,
\* deleteCopy, createInventory, updateInventory), the stored totalCopies of
\* the inventory is the number of its Copy records.  (Spec)
C16_TotalIsFreshCount ==
  \A p \in Procs :
    (pr[p].pc = "done" /\ pr[p].op \in CopyCountOps /\ pr[p].res.code \in {200, 201})
      => \A i \in 1..Len(invs) : invs[i].total = CountCopies(i)

\* C17: an updateCopy call that changes the status of a copy has recomputed
\* the counts of the owning inventory by the time it answers:
\* availableCopies is the number of available copies, the updated copy
\* counted with its new status.  (Spec)
C17_UpdateCopyRecounts ==
  \A p \in Procs :
    (/\ Done(p, "updateCopy") /\ pr[p].res.code = 200
     /\ pr[p].snap.copies[pr[p].a.id].status # pr[p].a.status)
      => /\ copies[pr[p].a.id].status = pr[p].a.status
         /\ invs[copies[pr[p].a.id].inv].avail = CountAvailable(copies[pr[p].a.id].inv)

\* C18: deleteCopy on a copy whose status is 'borrowed' fails with 'Cannot
\* delete a copy that is currently borrowed' and leaves the store as it
\* was; no step of a deleteCopy call removes a copy whose status is
\* 'borrowed'.  (SpecDesk)
C18_BorrowedCopyNotDeleted ==
  /\ [](\A p \in Procs :
         (/\ Done(p, "deleteCopy") /\ pr[p].a.id \in 1..Len(pr[p].snap.copies)
          /\ pr[p].snap.copies[pr[p].a.id].live
          /\ pr[p].snap.copies[pr[p].a.id].status = "borrowed")
           => /\ pr[p].res.code = 400
              /\ pr[p].res.error = "Cannot delete a copy that is currently borrowed"
              /\ DB = pr[p].snap)
  /\ [][\A c \in 1..Len(copies) :
          (copies[c].live /\ copies[c].status = "borrowed") => copies'[c].live]_vars

\* C18 witness: deleteCopy was refused for the copy of an open loan
C18_Witness ==
  \E p \in Procs :
    /\ Done(p, "deleteCopy") /\ pr[p].res.code = 400
    /\ BorrowedLoans(pr[p].a.id) # {}
    /\ copies[pr[p].a.id].live

\* the inventories of library lib and title title in store S
InventoriesOf(S, lib, title) ==
  {i \in 1..Len(S.invs) : S.invs[i].lib = lib /\ S.invs[i].title = title}

\* user u has a pending request for lib and title in store S
HasPending(S, u, lib, title) ==
  \E r \in 1..Len(S.reqs) : /\ S.reqs[r].user = u /\ S.reqs[r].lib = lib
                            /\ S.reqs[r].title = title /\ S.reqs[r].status = "pending"

\* C19: createBorrowRequest persists a request only if the library and the
\* title exist, an Inventory exists for them, its availableCopies > 0 and
\* the user has no pending request for them; it fails with not-found (404),
\* insufficient availability (400) or conflict (409) respectively, and a
\* failed call creates no request and changes nothing.  (SpecRequest)
C19_CreateRequestGuards ==
  \A p \in Procs :
    Done(p, "createBorrowRequest")
      => LET S == pr[p].snap
             a == pr[p].a
             code == pr[p].res.code
             known == a.lib \in Libs /\ a.title \in Titles
             found == InventoriesOf(S, a.lib, a.title)
             stocked == \E i \in found : S.invs[i].avail > 0
             dup == HasPending(S, a.user, a.lib, a.title)
         IN /\ code \in {201, 400, 404, 409}
            /\ code = 201 <=> (known /\ found # {} /\ stocked /\ ~dup)
            /\ code = 404 => (~known \/ found = {})
            /\ code = 400 => (found # {} /\ ~stocked)
            /\ code = 409 => dup
            /\ code = 201 => Len(reqs) = Len(S.reqs) + 1
            /\ code # 201 => DB = S

\* C19 witness: a member was refused because the inventory has no
\* available copy left after an approval
C19_Witness ==
  \E p \in Procs :
    /\ Done(p, "createBorrowRequest") /\ pr[p].res.code = 400
    /\ \E r \in 1..Len(recs) : recs[r].status = "borrowed"

\* C20: a successful createBorrowRequest persists one 'pending' request of
\* the caller, bound to the inventory of the library and title, with no copy
\* assigned and no decision, and leaves every Copy, every Inventory, every
\* BorrowRecord and every other request as they were.  (SpecRequest)
C20_CreateRequestFrame ==
  \A p \in Procs :
    (Done(p, "createBorrowRequest") /\ pr[p].res.code = 201)
      => LET S == pr[p].snap
             a == pr[p].a
             r == pr[p].res.id
         IN /\ r = Len(S.reqs) + 1 /\ Len(reqs) = r
            /\ reqs[r].inv \in InventoriesOf(S, a.lib, a.title)
            /\ reqs[r] = [NoReq EXCEPT !.user = a.user, !.lib = a.lib, !.title = a.title,
                                       !.inv = reqs[r].inv, !.status = "pending"]
            /\ \A k \in 1..Len(S.reqs) : reqs[k] = S.reqs[k]
            /\ copies = S.copies /\ invs = S.invs /\ recs = S.recs

\* C20 witness: a request was created while another member's loan is open
C20_Witness ==
  \E p \in Procs :
    /\ Done(p, "createBorrowRequest") /\ pr[p].res.code = 201
    /\ \E r \in 1..Len(recs) : recs[r].status = "borrowed" /\ recs[r].user # pr[p].a.user

\* C21: a reject decision on a pending request sets the request's status,
\* decidedBy and decidedAt and nothing else: no BorrowRecord is created, no
\* copy is assigned, and every Copy, Inventory and other request is as it
\* was.  (SpecRequest)
C21_RejectFrame ==
  \A p \in Procs :
    (/\ Done(p, "updateBorrowRequest") /\ pr[p].a.status = "rejected"
     /\ pr[p].a.id \in 1..Len(pr[p].snap.reqs)
     /\ pr[p].snap.reqs[pr[p].a.id].status = "pending")
      => LET S == pr[p].snap
             q == pr[p].a.id
         IN /\ pr[p].res.code = 200
            /\ reqs = [S.reqs EXCEPT ![q].status = "rejected",
                                     ![q].decidedBy = pr[p].a.user,
                                     ![q].decidedAt = now]
            /\ reqs[q].copy = 0
            /\ recs = S.recs /\ copies = S.copies /\ invs = S.invs

\* C21 witness: a request was rejected while copies are available and
\* another member's loan is open
C21_Witness ==
  \E p \in Procs :
    /\ Done(p, "updateBorrowRequest") /\ pr[p].a.status = "rejected"
    /\ pr[p].res.code = 200
    /\ \E c \in LiveCopies : copies[c].status = "available"
    /\ \E r \in 1..Len(recs) : recs[r].status = "borrowed"

\* C22: cancelBorrowRequest fails with 403 when the caller is not the
\* request's user and with 400 when the request is not 'pending', and a
\* failed call leaves the store as it was; otherwise it sets status
\* 'cancelled' and decidedAt and changes no Copy, Inventory or BorrowRecord.
\* (SpecRequest)
C22_CancelGuards ==
  \A p \in Procs :
    (Done(p, "cancelBorrowRequest") /\ pr[p].a.id \in 1..Len(pr[p].snap.reqs))
      => LET S == pr[p].snap
             q == pr[p].a.id
             own == S.reqs[q].user = pr[p].a.user
             open == S.reqs[q].status = "pending"
             code == pr[p].res.code
         IN /\ (~own /\ open) => code = 403
            /\ (own /\ ~open) => code = 400
            /\ (~own /\ ~open) => code \in {400, 403}
            /\ code # 200 => DB = S
            /\ (own /\ open)
                  => /\ code = 200
                     /\ reqs = [S.reqs EXCEPT ![q].status = "cancelled",
                                              ![q].decidedAt = now]
                     /\ copies = S.copies /\ invs = S.invs /\ recs = S.recs

\* C22 witness: a member's cancellation of their own approved request was
\* refused
C22_Witness ==
  \E p \in Procs :
    /\ Done(p, "cancelBorrowRequest") /\ pr[p].res.code = 400
    /\ reqs[pr[p].a.id].status = "approved"
    /\ reqs[pr[p].a.id].user = pr[p].a.user

\* C23: loans exist only as the result of an approval: whenever no call is
\* in progress, every BorrowRecord has a BorrowRequest with status
\* 'approved' and the same user, library, title and assigned copy.
\* (SpecConc)
C23_LoanHasApprovedRequest ==
  Quiet => \A r \in 1..Len(recs) :
             \E q \in 1..Len(reqs) :
               /\ reqs[q].status = "approved"
               /\ reqs[q].user = recs[r].user /\ reqs[q].lib = recs[r].lib
               /\ reqs[q].title = recs[r].title /\ reqs[q].copy = recs[r].copy

\* C25: when returnBook or updateBorrowRecord is called with a negative
\* lateFee or damageFee, the call fails and the BorrowRecord, the status of
\* its Copy and the Inventory counts are what they were before the call.
\* (SpecLoan)
C25_NegativeFeeRejected ==
  \A p \in Procs :
    (/\ pr[p].pc = "done" /\ pr[p].op \in {"returnBook", "updateBorrowRecord"}
     /\ ~ValidFeeInput(pr[p].a.fees))
      => /\ pr[p].res.code >= 400
         /\ recs = pr[p].snap.recs
         /\ copies = pr[p].snap.copies
         /\ invs = pr[p].snap.invs

\* C24: deleteTitle fails and changes nothing while a 'borrowed' or 'overdue'
\* loan exists for a copy of the title; when it succeeds, no Inventory, Copy,
\* BorrowRequest or BorrowRecord that references the title remains.
\* (SpecTitle)
C24_DeleteTitleCascade ==
  \A p \in Procs :
    Done(p, "deleteTitle") =>
      LET t == pr[p].a.title
          S == pr[p].snap
          onLoan == \E r \in 1..Len(S.recs) :
                      /\ S.recs[r].title = t
                      /\ S.recs[r].status \in {"borrowed", "overdue"}
                      /\ S.recs[r].copy \in 1..Len(S.copies)
                      /\ S.copies[S.recs[r].copy].live
      IN /\ onLoan => pr[p].res.code = 400 /\ DB = S /\ t \in titles
         /\ pr[p].res.code = 200 =>
              /\ t \notin titles
              /\ \A i \in 1..Len(invs) : invs[i].title # t
              /\ \A c \in 1..Len(copies) : copies[c].title # t
              /\ \A r \in 1..Len(reqs) : reqs[r].title # t
              /\ \A r \in 1..Len(recs) : recs[r].title # t

\* C26: listings are scoped by the caller's role: getActiveLoans returns to a
\* student or guest only loans of that caller, and getActiveLoans,
\* getOverdueRecords and getPendingRequests return to an admin only records
\* of the libraries assigned to that admin, whatever userId and libraryId
\* the query carries.  (SpecScope)
C26_ListingScoped ==
  \A p \in Procs :
    (/\ pr[p].pc = "done"
     /\ pr[p].op \in {"getActiveLoans", "getOverdueRecords", "getPendingRequests"})
      => \A k \in 1..Len(pr[p].ids) :
           LET d == pr[p].ids[k].doc
               u == pr[p].a.user
           IN IF u \in Members THEN d.user = u
              ELSE StaffRole(u) = "admin" => d.lib \in StaffLibs(u)

\* C27: an admin mutates only entities of the libraries assigned to them:
\* a successful request decision, loan return or copy update by an admin
\* acts on a request, record or copy whose own library is one of the
\* admin's libraries, whatever libraryId the call carries.  (SpecScope)
C27_AdminLibraryScope ==
  \A p \in Procs :
    (/\ pr[p].pc = "done" /\ pr[p].res.code = 200
     /\ pr[p].op \in {"updateBorrowRequest", "returnBook", "updateCopy"}
     /\ StaffRole(pr[p].a.user) = "admin")
      => LET S == pr[p].snap
             lib == CASE pr[p].op = "updateBorrowRequest" -> S.reqs[pr[p].a.id].lib
                      [] pr[p].op = "returnBook" -> S.recs[pr[p].a.id].lib
                      [] OTHER -> S.copies[pr[p].a.id].lib
         IN lib \in StaffLibs(pr[p].a.user)

\* C28: registration sets the first status from the role: a guest is stored
\* 'active' and is answered with an access token, a student is stored
\* 'pending' and gets no token; a role other than student or guest is
\* rejected and no user is created.  (SpecAuth)
C28_RegisterByRole ==
  \A p \in Procs :
    Done(p, "register") =>
      LET a == pr[p].a
          res == pr[p].res
      IN /\ a.role \notin {"none", "student", "guest"}
              => res.code = 400 /\ ~res.token /\ users = pr[p].snap.users
         /\ res.code = 201 =>
              /\ Len(users) = Len(pr[p].snap.users) + 1
              /\ users[res.id].role = (IF a.role = "none" THEN "guest" ELSE a.role)
              /\ users[res.id].role = "guest"
                   => users[res.id].status = "active" /\ res.token
              /\ users[res.id].role = "student"
                   => users[res.id].status = "pending" /\ ~res.token

\* a student has registered and is waiting for approval, without a token
C28_Witness ==
  \E p \in Procs : /\ Done(p, "register") /\ pr[p].res.code = 201
                    /\ pr[p].a.role = "student"
                    /\ users[pr[p].res.id].status = "pending"

C30_EmailUnique ==
  /\ \A u, v \in 1..Len(users) : u # v => users[u].email # users[v].email
  /\ \A p \in Procs :
       Done(p, "register") =>
         \A u \in 1..Len(pr[p].snap.users) :
           (/\ pr[p].snap.users[u].email = normalizeEmail(pr[p].a.email)
            /\ pr[p].a.role \in {"none", "student", "guest"})
             => /\ pr[p].res.code =
                     (IF pr[p].snap.users[u].status = "rejected" THEN 403 ELSE 409)
                /\ users = pr[p].snap.users

\* two registrations of one address raced: the index refused the second
C30_Witness ==
  \E p \in Procs : /\ Done(p, "register") /\ pr[p].res.code = 500
                    /\ \E u \in 1..Len(users) :
                         users[u].email = normalizeEmail(pr[p].a.email)

\* C31: in every reachable state a BorrowRecord has status 'overdue' only if
\* its dueDate is in the past and it has no returnDate: overdue is never
\* entered for a loan that is not yet due.  (SpecLoan)
C31_OverdueOnlyPastDue ==
  \A r \in LiveRecs :
    recs[r].status = "overdue"
      => recs[r].dueDate < now /\ recs[r].returnDate = NoTime

\* C32: after a loan is marked lost, its Copy stays non-available until staff
\* change the copy itself: no step of returnBook or updateBorrowRecord sets
\* the copy of a 'lost' record back to 'available'.  (SpecLoan, which has no
\* updateCopy)
C32_LostCopyStaysUnavailable ==
  [][\A r \in LiveRecs :
       (/\ recs[r].status = "lost"
        /\ recs[r].copy \in LiveCopies
        /\ copies[recs[r].copy].status # "available")
         => copies'[recs[r].copy].status # "available"]_vars

\* C33: once a user's status is 'rejected' it never changes again: no step
\* of register, updateUser, approveStudent or rejectStudent changes the
\* status of a rejected user.  (SpecAuth)
C33_RejectedIsFinal ==
  [][\A u \in 1..Len(users) :
       users[u].status = "rejected" => users'[u].status = "rejected"]_vars

\* C34: a copy created without a barcode gets the barcode of the library's
\* code and 1 + the number of the library's copies with that prefix, which
\* no other copy of the library has, after any prior sequence of copy
\* creations and deletions: copies of one library never share a barcode and
\* no creation fails on the barcode index.  (Spec)
C34_GeneratedBarcodeUnique ==
  /\ \A c, d \in LiveCopies :
       (c # d /\ copies[c].lib = copies[d].lib) => copies[c].barcode # copies[d].barcode
  /\ \A p \in Procs :
       (/\ Done(p, "createCopy") /\ pr[p].a.barcode = NoBarcode
        /\ authorizeLibraryAccess(pr[p].a.user, pr[p].a.lib)
        /\ pr[p].a.id \in 1..Len(pr[p].snap.invs)
        /\ pr[p].snap.invs[pr[p].a.id] # NoInv
        /\ pr[p].a.lib \in Libs)
         => /\ pr[p].res.code = 201
            /\ copies[pr[p].res.id].barcode =
                 Barcode(LibCode(pr[p].a.lib), 1 + CountPrefix(pr[p].snap.copies, pr[p].a.lib))
  /\ \A p \in Procs :
       (pr[p].pc = "done" /\ pr[p].op \in {"createInventory", "updateInventory"})
         => pr[p].res.code # 500

\* the active loans of copy c: BorrowRecord.findActive's status filter
ActiveLoans(c) ==
  {r \in LiveRecs : recs[r].copy = c /\ recs[r].status \in {"borrowed", "overdue"}}

\* C35: copy status and loans agree whenever no call is in progress: a Copy
\* has status 'borrowed' if and only if exactly one BorrowRecord with status
\* 'borrowed' or 'overdue' references it.  (SpecDesk)
C35_BorrowedIffActiveLoan ==
  Quiet => \A c \in LiveCopies :
             copies[c].status = "borrowed" <=> Cardinality(ActiveLoans(c)) = 1

\* C36: in every reachable state at most one active loan (BorrowRecord with
\* status 'borrowed' or 'overdue') exists per Copy: a copy whose loan has
\* become 'overdue' is never allocated to a second loan.  (SpecOverdue)
C36_OneActiveLoanPerCopy ==
  \A c \in LiveCopies : Cardinality(ActiveLoans(c)) <= 1

\* the calls on request r that have answered: approve and reject decisions
\* and cancellations
DecisionsOn(r) ==
  {p \in Procs :
     /\ pr[p].pc = "done" /\ pr[p].a.id = r
     /\ \/ pr[p].op = "cancelBorrowRequest"
        \/ pr[p].op = "updateBorrowRequest" /\ pr[p].a.status \in {"approved", "rejected"}}

\* C37: of the concurrent approve, reject and cancel calls on one pending
\* request exactly one takes effect and the others fail: at most one call is
\* answered 200, the request is in the state that call wrote, and at most one
\* BorrowRecord results from the request.  (SpecConc)
C37_OneDecisionWins ==
  \A r \in 1..Len(reqs) :
    LET won == {p \in DecisionsOn(r) : pr[p].res.code = 200} IN
    /\ Cardinality(won) <= 1
    /\ \A p \in won :
         reqs[r].status = (IF pr[p].op = "cancelBorrowRequest" THEN "cancelled"
                           ELSE pr[p].a.status)
    /\ Cardinality({k \in LiveRecs : recs[k].req = r}) <= 1

\* C38: every Copy's denormalized libraryId and titleId equal the libraryId
\* and titleId of the Inventory it belongs to, after any sequence of
\* createCopy, createInventory, updateInventory and updateCopy calls.  (Spec)
C38_CopyMatchesInventory ==
  \A c \in LiveCopies :
    copies[c].inv \in LiveInvs
      => /\ copies[c].lib = invs[copies[c].inv].lib
         /\ copies[c].title = invs[copies[c].inv].title

\* C39: in every reachable state a BorrowRecord has a returnDate if and only
\* if its status is 'returned'.  (SpecLoan)
C39_ReturnDateIffReturned ==
  \A r \in LiveRecs : recs[r].returnDate # NoTime <=> recs[r].status = "returned"
====
